---- MODULE Spec2Model ----
(***************************************************************************)
(* Model of the live-match deck-inference engine of mtga-meta-deck-finder  *)
(* (src/main.py): the log tailer, the arena-id resolver, the deck matcher, *)
(* the mana inference and the /check-logs streaming loop.                  *)
(*                                                                         *)
(* Strings are sequences of one-character strings, so that split, strip    *)
(* and the backward walk over the log file are computed as the code        *)
(* computes them.  Python's None is the record NoneVal.                    *)
(***************************************************************************)
EXTENDS Integers, Sequences, FiniteSets, TLC

(***************************************************************************)
(* Bounds                                                                  *)
(***************************************************************************)
MaxLines == 2        \* lines the log file holds at most
MaxIds == 3          \* length of the id lists given to the resolver
MaxDecks == 3        \* decks a deck store holds at most
MaxMana == 2         \* mana of one color a sample pool holds at most
MaxSymbols == 3      \* symbols of a sample cost string
MaxCostLen == 4      \* characters of a sample cost string that is not built from symbols
MaxTypeTokens == 2   \* words on each side of the em-dash of a sample type line
MaxTokens == 3
MaxFileLen == 4       \* tokens of the bracketed list of a sample log line

(***************************************************************************)
(* Python values and string primitives                                     *)
(***************************************************************************)
NoneVal == [some |-> FALSE, val |-> <<>>]
Some(v) == [some |-> TRUE, val |-> v]

NL == "\n"
BadByte == "xFF"     \* a byte that is not valid UTF-8
Whitespace == {" ", NL, "\t", "\r"}

ToSet(s) == {s[i] : i \in 1..Len(s)}

RECURSIVE LStripChars(_, _)
LStripChars(s, cs) ==
    IF s # <<>> /\ Head(s) \in cs THEN LStripChars(Tail(s), cs) ELSE s

RECURSIVE RStripChars(_, _)
RStripChars(s, cs) ==
    IF s # <<>> /\ s[Len(s)] \in cs
    THEN RStripChars(SubSeq(s, 1, Len(s) - 1), cs)
    ELSE s

\* str.strip(chars)
StripChars(s, cs) == RStripChars(LStripChars(s, cs), cs)

\* str.strip()
Strip(s) == StripChars(s, Whitespace)

\* str.startswith(p)
StartsWith(s, p) == Len(s) >= Len(p) /\ SubSeq(s, 1, Len(p)) = p

RECURSIVE SplitFrom(_, _, _)
SplitFrom(s, sep, piece) ==
    IF s = <<>> THEN <<piece>>
    ELSE IF StartsWith(s, sep)
         THEN <<piece>> \o SplitFrom(SubSeq(s, Len(sep) + 1, Len(s)), sep, <<>>)
         ELSE SplitFrom(Tail(s), sep, Append(piece, Head(s)))

\* str.split(sep) with a non-empty separator
Split(s, sep) == SplitFrom(s, sep, <<>>)

RECURSIVE SplitWsFrom(_, _)
SplitWsFrom(s, piece) ==
    IF s = <<>> THEN (IF piece = <<>> THEN <<>> ELSE <<piece>>)
    ELSE IF Head(s) \in Whitespace
         THEN (IF piece = <<>> THEN <<>> ELSE <<piece>>) \o SplitWsFrom(Tail(s), <<>>)
         ELSE SplitWsFrom(Tail(s), Append(piece, Head(s)))

\* str.split() on runs of whitespace
SplitWs(s) == SplitWsFrom(s, <<>>)

RECURSIVE Contains(_, _)
Contains(s, p) ==
    IF Len(s) < Len(p) THEN FALSE
    ELSE StartsWith(s, p) \/ Contains(Tail(s), p)

RECURSIVE Replace(_, _, _)
Replace(s, old, new) ==
    IF s = <<>> THEN <<>>
    ELSE IF StartsWith(s, old)
         THEN new \o Replace(SubSeq(s, Len(old) + 1, Len(s)), old, new)
         ELSE <<Head(s)>> \o Replace(Tail(s), old, new)

RECURSIVE JoinWith(_, _)
JoinWith(parts, sep) ==
    IF parts = <<>> THEN <<>>
    ELSE IF Len(parts) = 1 THEN parts[1]
    ELSE parts[1] \o sep \o JoinWith(Tail(parts), sep)

\* the empty tokens are not dropped
SelectNonEmpty_keeping_all(parts) == parts

RECURSIVE SelectNonEmpty(_)
SelectNonEmpty(parts) ==
    IF parts = <<>> THEN <<>>
    ELSE (IF Head(parts) # <<>> THEN <<Head(parts)>> ELSE <<>>)
         \o SelectNonEmpty(Tail(parts))

\* collections.Counter(seq)[x]
CountOf(seq, x) == Cardinality({i \in 1..Len(seq) : seq[i] = x})

\* all orderings of a finite set, as sequences without repetition
Perms(S) ==
    {p \in [1..Cardinality(S) -> S] : \A i, j \in 1..Cardinality(S) : p[i] = p[j] => i = j}

(***************************************************************************)
(* Log tailer: get_last_log_line                                           *)
(***************************************************************************)
\* sum(1 for _ in file): a binary file iterates over '\n'-terminated chunks
CountLines(data) ==
    Cardinality({i \in 1..Len(data) : data[i] = NL})
      + (IF data # <<>> /\ data[Len(data)] # NL THEN 1 ELSE 0)

\* The while loop of get_last_log_line.  pos is file.tell() (0-based);
\* the result is the position from which readline() then reads.
RECURSIVE WalkBack(_, _)
WalkBack(data, pos) ==
    IF data[pos + 1] = NL THEN pos + 1           \* read(1) = b'\n'
    ELSE IF pos + 1 = 1 THEN 0                    \* tell() = 1: seek(0), break
    ELSE WalkBack(data, pos - 1)                  \* seek(-2, SEEK_CUR)

\* file.readline() from position pos
RECURSIVE ReadLine(_, _)
ReadLine(data, pos) ==
    IF pos >= Len(data) THEN <<>>
    ELSE IF data[pos + 1] = NL THEN <<NL>>
    ELSE <<data[pos + 1]>> \o ReadLine(data, pos + 1)

\* get_last_log_line on a file; count0 is log_line_count before the call and
\* open_ok is FALSE when open() raises.  Returns the value returned and the
\* value log_line_count has afterwards.
get_last_log_line(file, count0, open_ok) ==
    IF ~file.exists THEN [ret |-> NoneVal, count |-> count0]
    ELSE IF ~open_ok THEN [ret |-> NoneVal, count |-> count0]
    ELSE LET n == CountLines(file.data)
             size == Len(file.data)
         IN IF size = 0 THEN [ret |-> NoneVal, count |-> n]
            ELSE IF size < 2 THEN [ret |-> NoneVal, count |-> n]   \* seek(-2, SEEK_END) raises OSError
            ELSE LET raw == ReadLine(file.data, WalkBack(file.data, size - 2))
                 IN IF BadByte \in ToSet(raw)
                    THEN [ret |-> NoneVal, count |-> n]              \* decode raises
                    ELSE [ret |-> Some(Strip(raw)), count |-> n]

(***************************************************************************)
(* Arena-id resolver, parsing half: parse_arena_ids_from_log               *)
(***************************************************************************)
RECURSIVE StripEach(_)
StripEach(parts) ==
    IF parts = <<>> THEN <<>>
    ELSE <<Strip(Head(parts))>> \o StripEach(Tail(parts))

parse_arena_ids_from_log(log_entry) ==
    IF ~log_entry.some THEN <<>>                  \* None.split: AttributeError, caught
    ELSE LET log_segments == Split(log_entry.val, <<":", ":">>)
         IN IF Len(log_segments) < 3 THEN <<>>
            ELSE LET cards_section == Split(log_segments[3], <<":", " ">>)
                 IN IF Len(cards_section) < 2 THEN <<>>
                    ELSE LET arena_ids_str == StripChars(cards_section[2], {"[", "]"})
                         IN SelectNonEmpty(StripEach(Split(arena_ids_str, <<",", " ">>)))

(***************************************************************************)
(* Card type parser: parse_card_types                                      *)
(***************************************************************************)
EmDash == "EMDASH"   \* the em-dash character

Str_Land == <<"L", "a", "n", "d">>
Str_Plane == <<"P", "l", "a", "n", "e">>
Str_TimeLord == <<"T", "i", "m", "e", " ", "L", "o", "r", "d">>
Str_TimeLordJoined == <<"T", "i", "m", "e", "!", "L", "o", "r", "d">>

MULTI_WORD_SUB_TYPES == {Str_TimeLord}

SUPER_TYPES ==
    { <<"B", "a", "s", "i", "c">>,
      <<"H", "o", "s", "t">>,
      <<"L", "e", "g", "e", "n", "d", "a", "r", "y">>,
      <<"O", "n", "g", "o", "i", "n", "g">>,
      <<"S", "n", "o", "w">>,
      <<"W", "o", "r", "l", "d">> }

\* the super types are recognized but stay among the types as well
SelectWords_keeping_super_types(words, keep) ==
    IF keep THEN SelectSeq(words, LAMBDA w : w \in SUPER_TYPES) ELSE words

RECURSIVE SelectWords(_, _)
SelectWords(words, keep) ==
    IF words = <<>> THEN <<>>
    ELSE (IF (Head(words) \in SUPER_TYPES) = keep THEN <<Head(words)>> ELSE <<>>)
         \o SelectWords(Tail(words), keep)

\* card_type is a nullable column: NoneVal or Some(string)
parse_card_types(card_type) ==
    IF ~card_type.some \/ card_type.val = <<>>
    THEN [super_types |-> <<>>, types |-> <<>>, sub_types |-> <<>>]
    ELSE LET s == card_type.val
             has_dash == EmDash \in ToSet(s)
             split_type == Split(s, <<EmDash>>)
             supertypes_and_types == IF has_dash THEN split_type[1] ELSE s
             subtypes == split_type[2]
             special_case_found == Contains(subtypes, Str_TimeLord)
             joined == IF special_case_found
                       THEN Replace(subtypes, Str_TimeLord, Str_TimeLordJoined)
                       ELSE subtypes
             tokens == SplitWs(joined)
             sub_types ==
                 IF ~has_dash THEN <<>>
                 ELSE IF StartsWith(s, Str_Plane) THEN <<Strip(subtypes)>>
                 ELSE IF special_case_found
                      THEN [i \in 1..Len(tokens) |-> Replace(tokens[i], <<"!">>, <<" ">>)]
                      ELSE tokens
             words == SplitWs(supertypes_and_types)
         IN [super_types |-> SelectWords(words, TRUE),
             types |-> JoinWith(SelectWords(words, FALSE), <<" ">>),
             sub_types |-> sub_types]

(***************************************************************************)
(* The read-only stores: card catalog, legacy id table, decks              *)
(***************************************************************************)
\* A catalog row of scryfall_all_cards.  Nullable columns hold NoneVal.
CardRow(id, arena_id, name, mana_cost, type_line, printed_name, produced_mana, component) ==
    [id |-> id, arena_id |-> arena_id, name |-> name, mana_cost |-> mana_cost,
     type_line |-> type_line, printed_name |-> printed_name, flavor_name |-> NoneVal,
     produced_mana |-> produced_mana, component |-> component]

Str_BasicLandPlains == <<"B", "a", "s", "i", "c", " ", "L", "a", "n", "d", " ", EmDash, " ", "P", "l", "a", "i", "n", "s">>
Str_Instant == <<"I", "n", "s", "t", "a", "n", "t">>
Str_BasicLandIsland == <<"B", "a", "s", "i", "c", " ", "L", "a", "n", "d", " ", EmDash, " ", "I", "s", "l", "a", "n", "d">>
Str_CreatureElf == <<"C", "r", "e", "a", "t", "u", "r", "e", " ", EmDash, " ", "E", "l", "f">>

SampleDb ==
    [scryfall_all_cards |->
        { CardRow("s1", Some(<<"1">>), "Plains", Some(<<>>), Some(Str_BasicLandPlains),
                  NoneVal, Some(<<"W">>), NoneVal),
          CardRow("s2", Some(<<"2">>), "Plains", Some(<<>>), Some(Str_BasicLandPlains),
                  NoneVal, Some(<<"W">>), NoneVal),
          CardRow("s3", NoneVal, "Bolt", Some(<<"{", "R", "}">>), Some(Str_Instant),
                  Some("Blitz"), NoneVal, NoneVal),
          CardRow("s4", Some(<<"7">>), "Island", Some(<<>>), Some(Str_BasicLandIsland),
                  NoneVal, Some(<<"U">>), NoneVal),
          CardRow("s5", Some(<<"8">>), "Coast", Some(<<>>), Some(Str_Land),
                  NoneVal, Some(<<"W", ",", "U">>), NoneVal),
          CardRow("s6", Some(<<"9">>), "Elf", Some(<<"{", "G", "}">>), Some(Str_CreatureElf),
                  NoneVal, Some(<<"G">>), NoneVal),
          CardRow("s7", NoneVal, "Duo", Some(<<"{", "W", "}", "{", "U", "}">>),
                  Some(Str_Instant), NoneVal, NoneVal, NoneVal),
          CardRow("s8", NoneVal, "Trio", Some(<<"{", "W", "}", "{", "U", "}", "{", "U", "}">>),
                  Some(Str_Instant), NoneVal, NoneVal, NoneVal),
          CardRow("s9", NoneVal, "Titan", Some(<<"{", "7", "}">>),
                  Some(Str_CreatureElf), NoneVal, NoneVal, NoneVal) },
     legacy |->                      \* the '17lands' table: id, name
        { [id |-> <<"3">>, name |-> "Bolt"],
          [id |-> <<"6">>, name |-> "Blitz"],
          [id |-> <<"4">>, name |-> "Ghost"] },
     decks |->
        { [id |-> 1, name |-> "D1", source |-> "17lands.com", url |-> "u1", format |-> "standard"],
          [id |-> 2, name |-> "D2", source |-> "mtgazone.com", url |-> "u2", format |-> "standard"] },
     deck_cards |->
        { [deck_id |-> 1, card_id |-> Some("s1"), name |-> "Plains", quantity |-> 4],
          [deck_id |-> 1, card_id |-> Some("s3"), name |-> "Bolt", quantity |-> 4],
          [deck_id |-> 1, card_id |-> Some("s7"), name |-> "Duo", quantity |-> 4],
          [deck_id |-> 1, card_id |-> Some("s8"), name |-> "Trio", quantity |-> 4],
          [deck_id |-> 1, card_id |-> Some("s9"), name |-> "Titan", quantity |-> 1],
          [deck_id |-> 2, card_id |-> NoneVal, name |-> "Plains", quantity |-> 20] }]

\* parse_card_types on the type lines of the sample catalog, worked out once
\* for all the calls that annotate its cards
SampleCardTypes ==
    {<<c.type_line, parse_card_types(c.type_line)>> : c \in SampleDb.scryfall_all_cards}

\* parse_card_types(card["type_line"]) as the annotating loops call it
CardTypes(type_line) ==
    LET known == {p \in SampleCardTypes : p[1] = type_line}
    IN IF known # {} THEN (CHOOSE p \in known : TRUE)[2] ELSE parse_card_types(type_line)

\* every arena id the sample stores know, plus one ("5") known to neither
ArenaIds == {<<"1">>, <<"2">>, <<"3">>, <<"4">>, <<"5">>, <<"6">>, <<"7">>, <<"8">>, <<"9">>}

(***************************************************************************)
(* Arena-id resolver, lookup half: fetch_current_deck_cards                *)
(*                                                                         *)
(* The queries carry no ORDER BY, so the order of their rows, and the row  *)
(* a LIMIT 1 picks, are choices of the database: the function is modelled  *)
(* as the set of outcomes it can produce.  missing_ids, built by           *)
(* list(set(...)), is kept as a set.                                       *)
(***************************************************************************)
\* SELECT DISTINCT name, mana_cost, type_line, arena_id, id, printed_name,
\*                 flavor_name, produced_mana
CardColumns(r) ==
    [name |-> r.name, mana_cost |-> r.mana_cost, type_line |-> r.type_line,
     arena_id |-> r.arena_id, id |-> r.id, printed_name |-> r.printed_name,
     flavor_name |-> r.flavor_name, produced_mana |-> r.produced_mana]

\* ... FROM scryfall_all_cards WHERE arena_id IN (arena_ids)
PrimaryRows(db, arena_ids) ==
    {CardColumns(r) : r \in {c \in db.scryfall_all_cards :
                                c.arena_id.some /\ c.arena_id.val \in ToSet(arena_ids)}}

\* SELECT DISTINCT name, CAST(id as VARCHAR(20)) as arena_id FROM '17lands'
\* WHERE id IN (missing_ids)
LegacyRows(db, missing_ids) ==
    {[name |-> l.name, arena_id |-> Some(l.id)] : l \in {x \in db.legacy : x.id \in missing_ids}}

\* The rows the two name queries can return for a legacy name: WHERE name = ?
\* LIMIT 1, and when that is empty WHERE printed_name = ? OR flavor_name = ?
\* LIMIT 1.  The empty set when neither finds a row.
NameLookup(db, name) ==
    LET exact == {c \in db.scryfall_all_cards : c.name = name}
        alias == {c \in db.scryfall_all_cards :
                     c.printed_name = Some(name) \/ c.flavor_name = Some(name)}
    IN {CardColumns(c) : c \in IF exact # {} THEN exact ELSE alias}

\* One way the name queries can answer for the legacy rows in order: a
\* sequence of Some(row) / NoneVal, one per legacy row.
Lookups(db, missing_cards) ==
    {res \in [1..Len(missing_cards) ->
                {NoneVal} \cup {Some(r) : r \in UNION {NameLookup(db, missing_cards[i].name) :
                                                        i \in 1..Len(missing_cards)}}] :
        \A i \in 1..Len(missing_cards) :
            IF NameLookup(db, missing_cards[i].name) = {}
            THEN res[i] = NoneVal
            ELSE res[i].some /\ res[i].val \in NameLookup(db, missing_cards[i].name)}

\* card["arena_id"] of the k-th legacy card once the loop has handled the
\* first done cards: overwritten by the catalog row when one was found
ArenaIdAfter(missing_cards, res, k, done) ==
    IF k <= done /\ res[k].some THEN res[k].val.arena_id ELSE missing_cards[k].arena_id

\* line 466, run at the end of iteration done of the loop over missing_cards
RemoveListed(missing_ids, missing_cards, res, done) ==
    missing_ids \ {ArenaIdAfter(missing_cards, res, k, done).val :
                      k \in {j \in 1..Len(missing_cards) :
                                ArenaIdAfter(missing_cards, res, j, done).some}}

\* the loop of lines 447-466: the value of missing_ids after iterations
\* done+1 .. Len(missing_cards)
RECURSIVE MissingLoop(_, _, _, _)
MissingLoop(missing_ids, missing_cards, res, done) ==
    IF done = Len(missing_cards) THEN missing_ids
    ELSE MissingLoop(RemoveListed(missing_ids, missing_cards, res, done + 1),
                     missing_cards, res, done + 1)

\* lines 474-477 for one card
Annotate(card, arena_ids) ==
    LET t == CardTypes(card.type_line)
    IN [name |-> card.name, mana_cost |-> card.mana_cost, type_line |-> card.type_line,
        arena_id |-> card.arena_id, id |-> card.id, printed_name |-> card.printed_name,
        flavor_name |-> card.flavor_name, produced_mana |-> card.produced_mana,
        count |-> IF card.arena_id.some THEN CountOf(arena_ids, card.arena_id.val) ELSE 0,
        super_types |-> t.super_types, types |-> t.types, sub_types |-> t.sub_types]

Raised == [raised |-> TRUE, cards |-> <<>>, missing_ids |-> {}]
Returned(cards, missing_ids) == [raised |-> FALSE, cards |-> cards, missing_ids |-> missing_ids]

\* The outcome for one order of the primary rows, one order of the legacy
\* rows and one answer of the name queries.  A legacy card no name query
\* resolved keeps only name and arena_id, and card['type_line'] raises
\* KeyError in the annotation loop.
FetchOutcome(arena_ids, primary, missing_cards, res, missing0) ==
    IF \E i \in 1..Len(missing_cards) : ~res[i].some THEN Raised
    ELSE LET cards == primary \o [i \in 1..Len(missing_cards) |-> res[i].val]
         IN Returned([i \in 1..Len(cards) |-> Annotate(cards[i], arena_ids)],
                     MissingLoop(missing0, missing_cards, res, 0))

fetch_current_deck_cards(db, arena_ids) ==
    IF arena_ids = <<>> THEN {Returned(<<>>, {})}
    ELSE LET rows == PrimaryRows(db, arena_ids)
             found_ids == {r.arena_id.val : r \in rows}
             missing0 == ToSet(arena_ids) \ found_ids
         IN UNION { UNION { { FetchOutcome(arena_ids, primary, missing_cards, res, missing0) :
                                res \in Lookups(db, missing_cards) } :
                            missing_cards \in Perms(LegacyRows(db, missing0)) } :
                    primary \in Perms(rows) }

(***************************************************************************)
(* Observed-count map: build_card_count_map                                *)
(***************************************************************************)
\* the dict after the loop has written the first n cards; a later card with
\* the same name overwrites the entry
RECURSIVE CountMapAfter(_, _, _)
CountMapAfter(arena_ids, cards, n) ==
    IF n = 0 THEN [name \in {} |-> 0]
    ELSE LET before == CountMapAfter(arena_ids, cards, n - 1)
             card == cards[n]
             value == IF card.arena_id.some /\ card.arena_id.val \in ToSet(arena_ids)
                      THEN CountOf(arena_ids, card.arena_id.val)
                      ELSE 1                           \* id_counts.get(.., 1)
         IN [name \in DOMAIN before \cup {card.name} |->
                IF name = card.name THEN value ELSE before[name]]

build_card_count_map(arena_ids, cards) == CountMapAfter(arena_ids, cards, Len(cards))

(***************************************************************************)
(* Deck matcher: find_matching_decks                                       *)
(*                                                                         *)
(* ORDER BY matched_cards DESC leaves the order of ties, and so what a     *)
(* LIMIT 3 keeps among them, to the database: the result is one of a set   *)
(* of lists.                                                               *)
(***************************************************************************)
MatchLimit == 3

\* (SELECT COUNT(*) FROM deck_cards WHERE deck_id = d.id)
TotalDeckCards(db, d) == Cardinality({dc \in db.deck_cards : dc.deck_id = d.id})

MatchRow(db, d, matched) ==
    [id |-> d.id, name |-> d.name, source |-> d.source, url |-> d.url,
     matched_cards |-> matched, total_deck_cards |-> TotalDeckCards(db, d)]

\* first query: decks JOIN deck_cards ON deck_id JOIN scryfall_all_cards ON
\* dc.card_id = c.id WHERE c.name IN (names) GROUP BY d.id,
\* COUNT(DISTINCT dc.card_id)
IdJoined(db, d, names) ==
    {dc \in db.deck_cards :
        /\ dc.deck_id = d.id
        /\ dc.card_id.some
        /\ \E c \in db.scryfall_all_cards : c.id = dc.card_id.val /\ c.name \in names}

IdTierRows(db, names) ==
    {MatchRow(db, d, Cardinality({dc.card_id : dc \in IdJoined(db, d, names)})) :
        d \in {x \in db.decks : IdJoined(db, x, names) # {}}}

\* second query: the join is on dc.name = c.name, COUNT(DISTINCT dc.name),
\* restricted by format, size and source
NameJoined(db, d, names) ==
    {dc \in db.deck_cards :
        /\ dc.deck_id = d.id
        /\ \E c \in db.scryfall_all_cards : c.name = dc.name /\ c.name \in names}

NameTierRows(db, names) ==
    {MatchRow(db, d, Cardinality({dc.name : dc \in NameJoined(db, d, names)})) :
        d \in {x \in db.decks :
                  /\ NameJoined(db, x, names) # {}
                  /\ x.format = "standard"
                  /\ TotalDeckCards(db, x) <= 100
                  /\ x.source \in {"17lands.com", "mtgazone.com"}}}

\* ORDER BY matched_cards DESC limit 3
OrderedLimited(rows) ==
    {SubSeq(p, 1, IF Len(p) < MatchLimit THEN Len(p) ELSE MatchLimit) :
        p \in {q \in Perms(rows) :
                  \A i, j \in 1..Len(q) : i < j => q[i].matched_cards >= q[j].matched_cards}}

\* the rows of the second query replace those of the first
find_matching_decks_replacing(db, current_cards) ==
    IF current_cards = <<>> THEN {<<>>}
    ELSE LET unique_card_names == {current_cards[i].name : i \in 1..Len(current_cards)}
         IN UNION { IF Len(cards) < 3
                    THEN OrderedLimited(NameTierRows(db, unique_card_names))
                    ELSE {cards} :
                    cards \in OrderedLimited(IdTierRows(db, unique_card_names)) }

find_matching_decks(db, current_cards) ==
    IF current_cards = <<>> THEN {<<>>}
    ELSE LET unique_card_names == {current_cards[i].name : i \in 1..Len(current_cards)}
         IN UNION { IF Len(cards) < 3
                    THEN {cards \o more : more \in OrderedLimited(NameTierRows(db, unique_card_names))}
                    ELSE {cards} :
                    cards \in OrderedLimited(IdTierRows(db, unique_card_names)) }

(***************************************************************************)
(* enrich_decks_with_cards                                                 *)
(*                                                                         *)
(* A deck's card list is kept as the set of its rows: no claim depends on  *)
(* their ORDER BY c.name order.                                            *)
(***************************************************************************)
DeckCardRow(dc, c) ==
    [name |-> c.name, quantity |-> dc.quantity, mana_cost |-> c.mana_cost,
     type_line |-> c.type_line, arena_id |-> c.arena_id, id |-> c.id,
     component |-> c.component]

NotComboPiece(rows) == {r \in rows : r.component # Some("combo_piece")}

\* deck_cards JOIN scryfall_all_cards ON dc.card_id = c.id WHERE dc.deck_id = ?
DeckCardsById(db, deck_id) ==
    {DeckCardRow(pr[1], pr[2]) :
        pr \in {q \in db.deck_cards \X db.scryfall_all_cards :
                   q[1].deck_id = deck_id /\ q[1].card_id = Some(q[2].id)}}

\* ... ON dc.name = c.name WHERE dc.deck_id = ? GROUP BY c.name: one row of
\* each group, whichever the database keeps
DeckCardsByName(db, deck_id) ==
    LET joined == {DeckCardRow(pr[1], pr[2]) :
                      pr \in {q \in db.deck_cards \X db.scryfall_all_cards :
                                 q[1].deck_id = deck_id /\ q[1].name = q[2].name}}
        names == {r.name : r \in joined}
    IN {{pick[n] : n \in names} :
           pick \in {f \in [names -> joined] : \A n \in names : f[n].name = n}}

\* the card lists a deck can get, before annotation
DeckCardLists(db, deck_id) ==
    LET by_id == NotComboPiece(DeckCardsById(db, deck_id))
    IN IF by_id # {}
       THEN {by_id}
       ELSE {NotComboPiece(rows) : rows \in DeckCardsByName(db, deck_id)}

\* card_count_map.get(card['name'], 0)
CurrentCount(card_count_map, name) ==
    IF name \in DOMAIN card_count_map THEN card_count_map[name] ELSE 0

EnrichCard(card, card_count_map) ==
    LET t == CardTypes(card.type_line)
    IN [name |-> card.name, quantity |-> card.quantity, mana_cost |-> card.mana_cost,
        type_line |-> card.type_line, arena_id |-> card.arena_id, id |-> card.id,
        component |-> card.component,
        super_types |-> t.super_types, types |-> t.types, sub_types |-> t.sub_types,
        current_count |-> CurrentCount(card_count_map, card.name)]

EnrichDeck(deck, rows, card_count_map) ==
    [id |-> deck.id, name |-> deck.name, source |-> deck.source, url |-> deck.url,
     matched_cards |-> deck.matched_cards, total_deck_cards |-> deck.total_deck_cards,
     cards |-> {EnrichCard(r, card_count_map) : r \in rows}]

\* the lists of enriched decks enrich_decks_with_cards can leave in decks
enrich_decks_with_cards(db, decks, card_count_map) ==
    LET lists == {<<i, DeckCardLists(db, decks[i].id)>> : i \in 1..Len(decks)}
    IN {[i \in 1..Len(decks) |-> EnrichDeck(decks[i], rows[i], card_count_map)] :
           rows \in {f \in [1..Len(decks) -> UNION {l[2] : l \in lists}] :
                       \A l \in lists : f[l[1]] \in l[2]}}

(***************************************************************************)
(* Mana inference (event_generator, lines 291-299)                         *)
(***************************************************************************)
PoolColors == {"W", "U", "B", "R", "G", "C"}

\* the keys of lands_dict: every piece of produced_mana.split(',') of every
\* card whose types is exactly 'Land' and whose produced_mana is truthy
LandColors(cards) ==
    UNION {ToSet(Split(cards[i].produced_mana.val, <<",">>)) :
              i \in {j \in 1..Len(cards) :
                        /\ cards[j].types = Str_Land
                        /\ cards[j].produced_mana.some
                        /\ cards[j].produced_mana.val # <<>>}}

\* one unit per observed land that produces the color
InferMana_counting_lands(cards) ==
    [raised |-> \E k \in LandColors(cards) : k \notin {<<c>> : c \in PoolColors},
     pool |-> [c \in PoolColors |->
                 Cardinality({j \in 1..Len(cards) :
                                 /\ cards[j].types = Str_Land
                                 /\ cards[j].produced_mana.some
                                 /\ <<c>> \in ToSet(Split(cards[j].produced_mana.val, <<",">>))})]]

\* ManaPool(**lands_dict): TypeError on a key that is no field of ManaPool
InferMana(cards) ==
    LET keys == LandColors(cards)
    IN IF \E k \in keys : k \notin {<<c>> : c \in PoolColors}
       THEN [raised |-> TRUE, pool |-> [c \in PoolColors |-> 0]]
       ELSE [raised |-> FALSE, pool |-> [c \in PoolColors |-> IF <<c>> \in keys THEN 1 ELSE 0]]

ZeroPool == [c \in PoolColors |-> 0]

(***************************************************************************)
(* Mana model: ManaPool.can_pay and ManaCost.from_string (lines 135-212)   *)
(***************************************************************************)
Colors == <<"W", "U", "B", "R", "G">>

ZeroCost == [W |-> 0, U |-> 0, B |-> 0, R |-> 0, G |-> 0, C |-> 0, generic |-> 0]

\* ManaPool.total
Total(pool) == pool.W + pool.U + pool.B + pool.R + pool.G + pool.C

\* the loop of lines 150-155 from the k-th color on; remaining is what the
\* colors before it left.  NoneVal stands for the early return False.
RECURSIVE PayColors(_, _, _, _)
PayColors(pool, cost, k, remaining) ==
    IF k > Len(Colors) THEN Some(remaining)
    ELSE IF pool[Colors[k]] < cost[Colors[k]] THEN NoneVal
    ELSE PayColors(pool, cost, k + 1, remaining - cost[Colors[k]])

\* the requirements are checked but never taken off what remains
can_pay_not_deducting(pool, cost) ==
    /\ \A k \in 1..Len(Colors) : pool[Colors[k]] >= cost[Colors[k]]
    /\ pool.C >= cost.C
    /\ Total(pool) >= cost.generic

\* the colorless requirement is neither checked nor taken off
can_pay_without_colorless_step(pool, cost) ==
    LET after == PayColors(pool, cost, 1, Total(pool))
    IN IF ~after.some THEN FALSE
       ELSE after.val >= cost.generic

can_pay(pool, cost) ==
    LET after == PayColors(pool, cost, 1, Total(pool))
    IN IF ~after.some THEN FALSE
       ELSE IF pool.C < cost.C THEN FALSE
       ELSE after.val - cost.C >= cost.generic

DigitChars == <<"0", "1", "2", "3", "4", "5", "6", "7", "8", "9">>

\* str.isdigit() on ASCII text
IsDigit(sym) ==
    sym # <<>> /\ \A i \in 1..Len(sym) : \E d \in 1..Len(DigitChars) : DigitChars[d] = sym[i]

\* int(sym) of an all-digit string
RECURSIVE IntOf(_)
IntOf(sym) ==
    IF sym = <<>> THEN 0
    ELSE 10 * IntOf(SubSeq(sym, 1, Len(sym) - 1))
         + (CHOOSE d \in 0..9 : DigitChars[d + 1] = sym[Len(sym)])

\* the position of the first "}" of s at or after i, 0 when there is none
RECURSIVE FirstClose(_, _)
FirstClose(s, i) ==
    IF i > Len(s) THEN 0
    ELSE IF s[i] = "}" THEN i
    ELSE FirstClose(s, i + 1)

\* re.findall(r"\{([^}]+)}", s) from position i on: a match starts at a "{"
\* followed by at least one character other than "}" and then a "}"; the
\* scan goes on after the match
RECURSIVE FindSymbols(_, _)
FindSymbols(s, i) ==
    IF i > Len(s) THEN <<>>
    ELSE IF s[i] # "{" THEN FindSymbols(s, i + 1)
    ELSE LET j == FirstClose(s, i + 1)
         IN IF j = 0 THEN <<>>
            ELSE IF j = i + 1 THEN FindSymbols(s, i + 1)
            ELSE <<SubSeq(s, i + 1, j - 1)>> \o FindSymbols(s, j + 1)

Str_generic == <<"g", "e", "n", "e", "r", "i", "c">>

\* the field of ManaCost a name stands for, NoneVal when it has no such field
FieldOf(name) ==
    IF Len(name) = 1 /\ name[1] \in PoolColors THEN Some(name[1])
    ELSE IF name = Str_generic THEN Some("generic")
    ELSE NoneVal

\* the parse so far: the exception raised ("" when none) and the cost
Parsed(raised, cost) == [raised |-> raised, cost |-> cost]

\* setattr(cost, name, getattr(cost, name) + 1): AttributeError when the
\* cost has no attribute of that name
Bump(cost, name) ==
    LET field == FieldOf(name)
    IN IF field.some
       THEN Parsed("", [cost EXCEPT ![field.val] = @ + 1])
       ELSE Parsed("AttributeError", cost)

\* every numeric symbol counted as one generic mana
GenericAmount_one(sym) == 1

\* line 184: int(symbol)
GenericAmount(sym) == IntOf(sym)

\* lines 207-210: colors[0]
HybridChoice(colors) == colors[1]

\* lines 199-210: a symbol that contains "/"
Hybrid(cost, symbol) ==
    LET colors == Split(symbol, <<"/">>)
        non_p == SelectSeq(colors, LAMBDA c : c # <<"P">>)
    IN IF <<"P">> \in ToSet(colors)
       THEN IF non_p = <<>> THEN Parsed("IndexError", cost)
            ELSE Bump(cost, non_p[1])
       ELSE IF IsDigit(HybridChoice(colors))
            THEN Parsed("", [cost EXCEPT !.generic = @ + GenericAmount(HybridChoice(colors))])
            ELSE Bump(cost, HybridChoice(colors))

\* lines 182-210 for one symbol
ParseSymbol(cost, symbol) ==
    IF IsDigit(symbol) THEN Parsed("", [cost EXCEPT !.generic = @ + GenericAmount(symbol)])
    ELSE IF Len(symbol) = 1 /\ symbol[1] \in PoolColors
         THEN Parsed("", [cost EXCEPT ![symbol[1]] = @ + 1])
    ELSE IF symbol = <<"X">> THEN Parsed("", cost)
    ELSE IF "/" \in ToSet(symbol) THEN Hybrid(cost, symbol)
    ELSE Parsed("", cost)

\* the loop of line 181 from the k-th symbol on; an exception ends it
RECURSIVE ParseSymbols(_, _, _)
ParseSymbols(symbols, k, cost) ==
    IF k > Len(symbols) THEN Parsed("", cost)
    ELSE LET step == ParseSymbol(cost, symbols[k])
         IN IF step.raised # "" THEN step
            ELSE ParseSymbols(symbols, k + 1, step.cost)

\* ManaCost.from_string; mana_cost is the nullable column
from_string(mana_cost) ==
    IF ~mana_cost.some \/ mana_cost.val = <<>> THEN Parsed("", ZeroCost)
    ELSE ParseSymbols(FindSymbols(mana_cost.val, 1), 1, ZeroCost)

(***************************************************************************)
(* Display value of a cost: calculate_mana_cost_value (lines 542-556)      *)
(***************************************************************************)
UpperChars == <<"W", "U", "B", "R", "G", "C", "X", "S", "P", "Q", "Z">>
LowerChars == <<"w", "u", "b", "r", "g", "c", "x", "s", "p", "q", "z">>

\* str.lower() on one character
Lower(ch) ==
    IF \E k \in 1..Len(UpperChars) : UpperChars[k] = ch
    THEN LowerChars[CHOOSE k \in 1..Len(UpperChars) : UpperChars[k] = ch]
    ELSE ch

\* the loop of lines 548-554 from index i (1-based) on.  tags holds, for
\* every <i class="ms ms-?"> tag appended, the character it is made from.
RECURSIVE CostValueFrom(_, _, _, _)
CostValueFrom(s, i, value, tags) ==
    IF i > Len(s) THEN [raised |-> "", value |-> value, tags |-> tags]
    ELSE IF s[i] = "{" /\ i = Len(s)
         THEN [raised |-> "IndexError", value |-> value, tags |-> tags]   \* mana_cost[i + 1]
    ELSE IF s[i] = "{" /\ ~IsDigit(<<s[i + 1]>>)
         THEN CostValueFrom(s, i + 1, value + 1, Append(tags, Lower(s[i + 1])))
    ELSE IF IsDigit(<<s[i]>>)
         THEN CostValueFrom(s, i + 1, value + IntOf(<<s[i]>>), Append(tags, s[i]))
    ELSE CostValueFrom(s, i + 1, value, tags)

calculate_mana_cost_value(mana_cost) ==
    IF ~mana_cost.some \/ mana_cost.val = <<>>
    THEN [raised |-> "", value |-> 0, tags |-> <<>>]
    ELSE CostValueFrom(mana_cost.val, 1, 0, <<>>)

(***************************************************************************)
(* Playability (lines 215-227)                                             *)
(***************************************************************************)
\* every card counts as playable whatever it costs
is_card_playable_ignoring_cost(card_mana_cost, opponent_mana) ==
    [raised |-> "", playable |-> can_pay(opponent_mana, ZeroCost)]

\* is_card_playable: the exception from_string raised ("" when none) and
\* the answer of can_pay
is_card_playable(card_mana_cost, opponent_mana) ==
    LET cost == from_string(card_mana_cost)
    IN [raised |-> cost.raised,
        playable |-> IF cost.raised = "" THEN can_pay(opponent_mana, cost.cost) ELSE FALSE]

\* every card is marked playable
enrich_cards_with_playability_marking_all(cards, opponent_mana) ==
    {[is_playable |-> TRUE] @@ card : card \in cards}

\* card["is_playable"] = ... for every card of a deck
enrich_cards_with_playability(cards, opponent_mana) ==
    {[is_playable |-> is_card_playable(card.mana_cost, opponent_mana).playable] @@ card :
        card \in cards}

enrich_decks_with_playability(decks, opponent_mana) ==
    [i \in 1..Len(decks) |->
        [decks[i] EXCEPT !.cards = enrich_cards_with_playability(@, opponent_mana)]]

\* the exception enrich_decks_with_playability ends with, "" when none.
\* When costs of several cards raise, the first card in deck order decides
\* which; every one of them ends the tick the same way.
PlayabilityRaised(decks, opponent_mana) ==
    LET names == {is_card_playable(card.mana_cost, opponent_mana).raised :
                     card \in UNION {decks[i].cards : i \in 1..Len(decks)}} \ {""}
    IN IF names = {} THEN "" ELSE CHOOSE r \in names : TRUE

(***************************************************************************)
(* State                                                                   *)
(***************************************************************************)
Sessions == {"s1", "s2"}

VARIABLES
    log_file,                       \* the log: [exists, data]
    log_line_count,                 \* module global, line 20
    last_processed_log_line_count,  \* module global, line 21
    pc,                             \* where each session's generator is suspended
    conn_open,                      \* the session's sqlite connection is open
    disconnected,                   \* the client of the session has gone
    missing_ids,                    \* the generator's local missing_ids
    event,                          \* the event handed over at the yield
    exit,                           \* how the generator ended
    counted,                        \* the sessions that have counted the lines since the log last changed
    f_pc,                           \* resolver run: position
    f_ids,                          \* resolver run: the observed id list
    f_out,                          \* resolver run: result of fetch_current_deck_cards
    f_decks,                        \* resolver run: the enriched candidate decks
    f_event,                        \* resolver run: the update rendered
    u_pc,                           \* function run: position
    u_in,                           \* function run: the arguments
    u_out                           \* function run: the result

stream_vars == <<log_file, log_line_count, last_processed_log_line_count, pc, conn_open,
                 disconnected, missing_ids, event, exit, counted>>
fetch_vars == <<f_pc, f_ids, f_out, f_decks, f_event>>
unit_vars == <<u_pc, u_in, u_out>>
vars == <<log_file, log_line_count, last_processed_log_line_count, pc, conn_open,
          disconnected, missing_ids, event, exit, counted, f_pc, f_ids, f_out, f_decks,
          f_event, u_pc, u_in, u_out>>

\* a local that has not been assigned yet
Unbound == [bound |-> FALSE, val |-> {}]
Bound(v) == [bound |-> TRUE, val |-> v]

\* the lines the log producer writes
Line_Malformed == <<"x">>
Line_Cards == <<"a", ":", ":", "b", ":", ":", "c", ":", " ", "[", "1", ",", " ", "5", "]">>
Line_LegacyOnly == <<"a", ":", ":", "b", ":", ":", "c", ":", " ", "[", "4", "]">>
Line_Undecodable == <<BadByte>>
SampleLines == {Line_Malformed, Line_Cards, Line_LegacyOnly, Line_Undecodable}

(***************************************************************************)
(* One tick of event_generator (lines 262-317)                             *)
(***************************************************************************)
\* the loop without its disconnect check
is_disconnected_unchecked(s) == FALSE

\* line 263: await request.is_disconnected()
is_disconnected(s) == disconnected[s]

\* the change is processed but not recorded as processed
MarkProcessed_skipped(processed, count) == processed

\* the processed count is cleared instead of recorded
MarkProcessed_cleared(processed, count) == 0

\* the changes are counted instead of the line count being copied
MarkProcessed_incrementing(processed, count) == processed + 1

\* line 269: last_processed_log_line_count = log_line_count
MarkProcessed(processed, count) == count

\* conn.close() after the loop instead of in a finally clause
CloseOnExit_after_loop(conns, s, by_exception) ==
    IF by_exception THEN conns ELSE [conns EXCEPT ![s] = FALSE]

\* lines 318-319: the finally clause, on break and on an exception alike
CloseOnExit(conns, s, by_exception) == [conns EXCEPT ![s] = FALSE]

\* what a tick leaves behind: the local missing_ids, the exception that
\* escaped ("" when none) and the event yielded (NoneVal when none)
TickEnd(local_missing, raised, ev) ==
    [missing_ids |-> local_missing, raised |-> raised, event |-> ev]

\* lines 291-315: mana inference, playability and render.  Reading a local that was never
\* assigned raises UnboundLocalError.
Render(cards, matching_decks, local_missing) ==
    LET mana == InferMana(cards)
    IN IF mana.raised THEN TickEnd(local_missing, "TypeError", NoneVal)
       ELSE LET raised == PlayabilityRaised(matching_decks, mana.pool)
            IN IF raised # "" THEN TickEnd(local_missing, raised, NoneVal)
               ELSE IF ~local_missing.bound
                    THEN TickEnd(local_missing, "UnboundLocalError", NoneVal)
               ELSE TickEnd(local_missing, "",
                            Some([cards |-> cards,
                                  matching_decks |->
                                      enrich_decks_with_playability(matching_decks, mana.pool),
                                  opponent_mana |-> mana.pool,
                                  missing_ids |-> local_missing.val]))

\* lines 271-315 on the line read; db_ok is FALSE when the database fails
\* the first query
Pipeline(db, last_log_entry, local_missing, db_ok) ==
    LET arena_ids == parse_arena_ids_from_log(last_log_entry)
    IN IF arena_ids = <<>> THEN {Render(<<>>, <<>>, local_missing)}
       ELSE IF ~db_ok THEN {TickEnd(local_missing, "OperationalError", NoneVal)}
       ELSE UNION {
              IF o.raised THEN {TickEnd(local_missing, "KeyError", NoneVal)}
              ELSE UNION {
                     {Render(o.cards, decks, Bound(o.missing_ids)) :
                         decks \in enrich_decks_with_cards(db, matching,
                                       build_card_count_map(arena_ids, o.cards))} :
                     matching \in find_matching_decks(db, o.cards)} :
              o \in fetch_current_deck_cards(db, arena_ids)}

\* a new session starts the counters over
Connect_resetting(s) ==
    /\ pc[s] = "init"
    /\ pc' = [pc EXCEPT ![s] = "check"]
    /\ conn_open' = [conn_open EXCEPT ![s] = TRUE]
    /\ log_line_count' = 0
    /\ last_processed_log_line_count' = 0
    /\ UNCHANGED <<log_file, disconnected, missing_ids, event, exit, counted>>
    /\ UNCHANGED fetch_vars
    /\ UNCHANGED unit_vars

Connect(s) ==
    /\ pc[s] = "init"
    /\ pc' = [pc EXCEPT ![s] = "check"]
    /\ conn_open' = [conn_open EXCEPT ![s] = TRUE]          \* line 255
    /\ UNCHANGED <<log_file, log_line_count, last_processed_log_line_count, disconnected,
                   missing_ids, event, exit, counted>>
    /\ UNCHANGED fetch_vars
    /\ UNCHANGED unit_vars

\* the tick gives way to the other sessions right after its read and goes
\* on later from the state it finds then
TickWith_suspended_after_read(s, open_ok, db_ok) ==
    /\ pc[s] = "check"
    /\ ~is_disconnected(s)
    /\ log_line_count' = get_last_log_line(log_file, log_line_count, open_ok).count
    /\ counted' = IF log_file.exists /\ open_ok THEN counted \cup {s} ELSE counted
    /\ pc' = [pc EXCEPT ![s] = "sleep"]
    /\ UNCHANGED <<log_file, last_processed_log_line_count, conn_open, disconnected,
                   missing_ids, event, exit>>
    /\ UNCHANGED fetch_vars
    /\ UNCHANGED unit_vars

\* From the disconnect check to the next suspension: nothing in between
\* awaits, so the whole tick is one step.
TickWith(s, open_ok, db_ok) ==
    /\ pc[s] = "check"
    /\ IF is_disconnected(s)
       THEN /\ pc' = [pc EXCEPT ![s] = "done"]               \* break
            /\ exit' = [exit EXCEPT ![s] = "disconnect"]
            /\ conn_open' = CloseOnExit(conn_open, s, FALSE)
            /\ UNCHANGED <<log_line_count, last_processed_log_line_count,
                           missing_ids, event, counted>>
       ELSE LET r == get_last_log_line(log_file, log_line_count, open_ok)
            IN /\ log_line_count' = r.count
               /\ counted' = IF log_file.exists /\ open_ok THEN counted \cup {s} ELSE counted
               /\ IF r.count = last_processed_log_line_count
                  THEN /\ pc' = [pc EXCEPT ![s] = "sleep"]
                       /\ UNCHANGED <<last_processed_log_line_count, missing_ids,
                                      event, exit, conn_open>>
                  ELSE /\ last_processed_log_line_count' =
                              MarkProcessed(last_processed_log_line_count, r.count)
                       /\ \E end \in Pipeline(SampleDb, r.ret, missing_ids[s], db_ok) :
                            /\ missing_ids' = [missing_ids EXCEPT ![s] = end.missing_ids]
                            /\ IF end.raised # ""
                               THEN /\ pc' = [pc EXCEPT ![s] = "done"]
                                    /\ exit' = [exit EXCEPT ![s] = end.raised]
                                    /\ conn_open' = CloseOnExit(conn_open, s, TRUE)
                                    /\ UNCHANGED event
                               ELSE /\ pc' = [pc EXCEPT ![s] = "yield"]
                                    /\ event' = [event EXCEPT ![s] = end.event]
                                    /\ UNCHANGED <<exit, conn_open>>
    /\ UNCHANGED <<log_file, disconnected>>
    /\ UNCHANGED fetch_vars
    /\ UNCHANGED unit_vars

Tick(s) == \E open_ok, db_ok \in BOOLEAN : TickWith(s, open_ok, db_ok)

\* the consumer has taken the event; the generator goes on to the sleep
Resume(s) ==
    /\ pc[s] = "yield"
    /\ pc' = [pc EXCEPT ![s] = "sleep"]
    /\ event' = [event EXCEPT ![s] = NoneVal]
    /\ UNCHANGED <<log_file, log_line_count, last_processed_log_line_count, conn_open,
                   disconnected, missing_ids, exit, counted>>
    /\ UNCHANGED fetch_vars
    /\ UNCHANGED unit_vars

\* asyncio.sleep(1) is over (line 317)
Wake(s) ==
    /\ pc[s] = "sleep"
    /\ pc' = [pc EXCEPT ![s] = "check"]
    /\ UNCHANGED <<log_file, log_line_count, last_processed_log_line_count, conn_open,
                   disconnected, missing_ids, event, exit, counted>>
    /\ UNCHANGED fetch_vars
    /\ UNCHANGED unit_vars

(***************************************************************************)
(* Environment: the client and the log producer                            *)
(***************************************************************************)
Disconnect(s) ==
    /\ pc[s] \in {"check", "yield", "sleep"}
    /\ ~disconnected[s]
    /\ disconnected' = [disconnected EXCEPT ![s] = TRUE]
    /\ UNCHANGED <<log_file, log_line_count, last_processed_log_line_count, pc, conn_open,
                   missing_ids, event, exit, counted>>
    /\ UNCHANGED fetch_vars
    /\ UNCHANGED unit_vars

LogChanges(file) ==
    /\ log_file' = file
    /\ counted' = {}
    /\ UNCHANGED <<log_line_count, last_processed_log_line_count, pc, conn_open,
                   disconnected, missing_ids, event, exit>>
    /\ UNCHANGED fetch_vars
    /\ UNCHANGED unit_vars

AppendLine(line) ==
    /\ CountLines(log_file.data) < MaxLines
    /\ LogChanges([exists |-> TRUE, data |-> log_file.data \o line \o <<NL>>])

TruncateLog ==
    /\ log_file.exists
    /\ log_file.data # <<>>
    /\ LogChanges([exists |-> TRUE, data |-> <<>>])

DeleteLog ==
    /\ log_file.exists
    /\ LogChanges([exists |-> FALSE, data |-> <<>>])

\* the data up to and including the newline before the last line
RECURSIVE BeforeLastLine(_)
BeforeLastLine(data) ==
    IF Len(data) <= 1 THEN <<>>
    ELSE IF data[Len(data) - 1] = NL THEN SubSeq(data, 1, Len(data) - 1)
    ELSE BeforeLastLine(SubSeq(data, 1, Len(data) - 1))

\* the last line is replaced by another one: same line count, new content
RewriteLastLine(line) ==
    /\ log_file.exists
    /\ log_file.data # <<>>
    /\ BeforeLastLine(log_file.data) \o line \o <<NL>> # log_file.data
    /\ LogChanges([exists |-> TRUE, data |-> BeforeLastLine(log_file.data) \o line \o <<NL>>])

(***************************************************************************)
(* The streaming sessions                                                  *)
(***************************************************************************)
NoFetchRun ==
    /\ f_pc = "off"
    /\ f_ids = <<>>
    /\ f_out = Returned(<<>>, {})
    /\ f_decks = <<>>
    /\ f_event = NoneVal

StreamStart ==
    /\ log_file = [exists |-> FALSE, data |-> <<>>]
    /\ log_line_count = 0
    /\ last_processed_log_line_count = 0
    /\ pc = [s \in Sessions |-> "init"]
    /\ conn_open = [s \in Sessions |-> FALSE]
    /\ disconnected = [s \in Sessions |-> FALSE]
    /\ missing_ids = [s \in Sessions |-> Unbound]
    /\ event = [s \in Sessions |-> NoneVal]
    /\ exit = [s \in Sessions |-> ""]
    /\ counted = {}

NoUnitRun ==
    /\ u_pc = "off"
    /\ u_in = <<>>
    /\ u_out = <<>>

Init == StreamStart /\ NoFetchRun /\ NoUnitRun

Next ==
    \/ \E s \in Sessions : Connect(s)
    \/ \E s \in Sessions : Tick(s)
    \/ \E s \in Sessions : Resume(s)
    \/ \E s \in Sessions : Wake(s)
    \/ \E s \in Sessions : Disconnect(s)
    \/ \E line \in SampleLines : AppendLine(line)
    \/ \E line \in SampleLines : RewriteLastLine(line)
    \/ TruncateLog
    \/ DeleteLog

Spec == Init /\ [][Next]_vars

(***************************************************************************)
(* A single session on an append-only log, with a working database         *)
(*                                                                         *)
(* The event loop runs every task that is ready and the response consumes  *)
(* every event yielded, so each step of the session is weakly fair.  A     *)
(* tick is enabled exactly when the session is at its disconnect check and *)
(* always leaves it, so WF_vars(LiveTick) is []<>(pc[LiveSession] #        *)
(* "check"); it is stated in that form.                                    *)
(***************************************************************************)
LiveSession == "s1"

LiveTick == TickWith(LiveSession, TRUE, TRUE)

LiveNext ==
    \/ Connect(LiveSession)
    \/ LiveTick
    \/ Resume(LiveSession)
    \/ Wake(LiveSession)
    \/ \E line \in SampleLines : AppendLine(line)

LiveSpec ==
    /\ Init
    /\ [][LiveNext]_vars
    /\ WF_vars(Connect(LiveSession))
    /\ []<>(pc[LiveSession] # "check")
    /\ WF_vars(Resume(LiveSession))
    /\ WF_vars(Wake(LiveSession))

(***************************************************************************)
(* The pipeline of a tick run on an arbitrary observed id list             *)
(* (lines 274-315 of event_generator)                                      *)
(***************************************************************************)
IdLists == UNION {[1..n -> ArenaIds] : n \in 0..MaxIds}

FetchInit ==
    /\ StreamStart
    /\ f_pc = "input"
    /\ f_ids \in IdLists
    /\ f_out = Returned(<<>>, {})
    /\ f_decks = <<>>
    /\ f_event = NoneVal
    /\ NoUnitRun

RunFetch ==
    /\ f_pc = "input"
    /\ \E o \in fetch_current_deck_cards(SampleDb, f_ids) :
         /\ f_out' = o
         /\ f_pc' = IF o.raised THEN "raised" ELSE "fetched"
    /\ UNCHANGED <<f_ids, f_decks, f_event>>
    /\ UNCHANGED stream_vars
    /\ UNCHANGED unit_vars

RunMatchAndEnrich ==
    /\ f_pc = "fetched"
    /\ \E matching \in find_matching_decks(SampleDb, f_out.cards) :
         \E decks \in enrich_decks_with_cards(SampleDb, matching,
                          build_card_count_map(f_ids, f_out.cards)) :
            f_decks' = decks
    /\ f_pc' = "enriched"
    /\ UNCHANGED <<f_ids, f_out, f_event>>
    /\ UNCHANGED stream_vars
    /\ UNCHANGED unit_vars

\* lines 291-315 on the cards resolved and the decks enriched
RunRender ==
    /\ f_pc = "enriched"
    /\ \E end \in {Render(f_out.cards, f_decks, Bound(f_out.missing_ids))} :
          /\ f_event' = end.event
          /\ f_pc' = IF end.raised # "" THEN "render raised" ELSE "rendered"
    /\ UNCHANGED <<f_ids, f_out, f_decks>>
    /\ UNCHANGED stream_vars
    /\ UNCHANGED unit_vars

FetchNext == RunFetch \/ RunMatchAndEnrich \/ RunRender

FetchSpec == FetchInit /\ [][FetchNext]_vars

(***************************************************************************)
(* find_matching_decks run on an arbitrary deck store and observed cards   *)
(*                                                                         *)
(* A deck store is the sample catalog with up to MaxDecks decks; each deck *)
(* has one of the card lists of DeckShapes (linked to the catalog by       *)
(* card_id or by name only) and one of the headers of DeckKinds (passing   *)
(* the filter of the second query or not).                                 *)
(***************************************************************************)
DeckShapes ==
    { {[card_id |-> Some("s1"), name |-> "Plains", quantity |-> 4]},
      {[card_id |-> Some("s1"), name |-> "Plains", quantity |-> 4],
       [card_id |-> Some("s3"), name |-> "Bolt", quantity |-> 4]},
      {[card_id |-> Some("s1"), name |-> "Plains", quantity |-> 4],
       [card_id |-> Some("s2"), name |-> "Plains", quantity |-> 4]},
      {[card_id |-> NoneVal, name |-> "Plains", quantity |-> 20]},
      {[card_id |-> NoneVal, name |-> "Plains", quantity |-> 20],
       [card_id |-> NoneVal, name |-> "Bolt", quantity |-> 4]} }

DeckKinds ==
    { [format |-> "standard", source |-> "17lands.com"],
      [format |-> "standard", source |-> "untapped"],
      [format |-> "historic", source |-> "mtgazone.com"] }

DeckLayouts(max_decks) ==
    UNION {[1..n -> [shape : DeckShapes, kind : DeckKinds]] : n \in 0..max_decks}

StoreOf(layout) ==
    [scryfall_all_cards |-> SampleDb.scryfall_all_cards,
     legacy |-> SampleDb.legacy,
     decks |-> {[id |-> i, name |-> "D", source |-> layout[i].kind.source, url |-> "u",
                 format |-> layout[i].kind.format] : i \in 1..Len(layout)},
     deck_cards |-> UNION {{[deck_id |-> i, card_id |-> r.card_id, name |-> r.name,
                             quantity |-> r.quantity] : r \in layout[i].shape} :
                              i \in 1..Len(layout)}]

DeckStores(max_decks) == {StoreOf(layout) : layout \in DeckLayouts(max_decks)}

\* the observed cards, by the one field find_matching_decks reads
ObservedCards ==
    { <<>>,
      <<[name |-> "Plains"]>>,
      <<[name |-> "Bolt"]>>,
      <<[name |-> "Plains"], [name |-> "Plains"]>>,
      <<[name |-> "Bolt"], [name |-> "Plains"]>> }

MatchInit ==
    /\ StreamStart
    /\ NoFetchRun
    /\ u_pc = "input"
    /\ u_in \in [db : DeckStores(MaxDecks), current_cards : ObservedCards]
    /\ u_out = <<>>

RunFindMatchingDecks ==
    /\ u_pc = "input"
    /\ u_out' \in find_matching_decks(u_in.db, u_in.current_cards)
    /\ u_pc' = "returned"
    /\ UNCHANGED u_in
    /\ UNCHANGED stream_vars
    /\ UNCHANGED fetch_vars

MatchNext == RunFindMatchingDecks

MatchSpec == MatchInit /\ [][MatchNext]_vars

(***************************************************************************)
(* ManaPool.can_pay run on sample pools and costs                          *)
(*                                                                         *)
(* The pools hold up to MaxMana of W, G and C and at most one U; the costs *)
(* ask for up to one more than any pool holds, and for colors no pool has. *)
(***************************************************************************)
PoolSample ==
    {[W |-> w, U |-> u, B |-> 0, R |-> 0, G |-> g, C |-> c] :
        w \in 0..MaxMana, g \in 0..MaxMana, c \in 0..MaxMana, u \in 0..1}

CostSample ==
    {[W |-> w, U |-> u, B |-> b, R |-> 0, G |-> g, C |-> c, generic |-> n] :
        w \in 0..(MaxMana + 1), n \in 0..(MaxMana + 1),
        u \in 0..1, b \in 0..1, g \in 0..1, c \in 0..1}

PayInit ==
    /\ StreamStart
    /\ NoFetchRun
    /\ u_pc = "input"
    /\ u_in \in [pool : PoolSample, cost : CostSample]
    /\ u_out = <<>>

RunCanPay ==
    /\ u_pc = "input"
    /\ u_out' = can_pay(u_in.pool, u_in.cost)
    /\ u_pc' = "returned"
    /\ UNCHANGED u_in
    /\ UNCHANGED stream_vars
    /\ UNCHANGED fetch_vars

PayNext == RunCanPay

PaySpec == PayInit /\ [][PayNext]_vars

(***************************************************************************)
(* ManaCost.from_string run on sample cost strings                         *)
(*                                                                         *)
(* The strings are the lists of SymbolLists, each symbol in braces, and    *)
(* every string of up to MaxCostLen characters of CostAlphabet, braces     *)
(* balanced or not.                                                        *)
(***************************************************************************)
PlainSymbols ==
    {<<c>> : c \in PoolColors} \cup {<<"X">>, <<"2">>, <<"1", "0">>, <<"S">>}

HybridSides == {"W", "U", "P", "2"}

HybridSymbols ==
    {<<a, "/", b>> : a \in HybridSides, b \in HybridSides}
       \cup {<<"G", "/", "U", "/", "P">>, <<"Q", "/", "Z">>}

\* the cost string of a list of symbols
RECURSIVE Braced(_)
Braced(symbols) ==
    IF symbols = <<>> THEN <<>>
    ELSE <<"{">> \o Head(symbols) \o <<"}">> \o Braced(Tail(symbols))

CostAlphabet == {"{", "}", "W", "2", "/", "P", "Q"}

\* lists of plain symbols, and a hybrid symbol alone or next to a plain one
SymbolLists(max_symbols) ==
    UNION {[1..n -> PlainSymbols] : n \in 0..max_symbols}
       \cup {<<h>> : h \in HybridSymbols}
       \cup {<<h, p>> : h \in HybridSymbols, p \in PlainSymbols}
       \cup {<<p, h>> : h \in HybridSymbols, p \in PlainSymbols}

CostInputs(max_symbols, max_len) ==
    {[symbols |-> Some(l), text |-> Braced(l)] : l \in SymbolLists(max_symbols)}
       \cup {[symbols |-> NoneVal, text |-> t] :
                t \in UNION {[1..n -> CostAlphabet] : n \in 0..max_len}}

CostInit ==
    /\ StreamStart
    /\ NoFetchRun
    /\ u_pc = "input"
    /\ u_in \in CostInputs(MaxSymbols, MaxCostLen)
    /\ u_out = <<>>

RunFromString ==
    /\ u_pc = "input"
    /\ u_out' = from_string(Some(u_in.text))
    /\ u_pc' = "returned"
    /\ UNCHANGED u_in
    /\ UNCHANGED stream_vars
    /\ UNCHANGED fetch_vars

CostNext == RunFromString

CostSpec == CostInit /\ [][CostNext]_vars

(***************************************************************************)
(* parse_card_types run on sample type lines                               *)
(*                                                                         *)
(* A type line is written from up to MaxTypeTokens words left of the       *)
(* em-dash and, when it has an em-dash, up to MaxTypeTokens words right of *)
(* it, possibly followed by a second em-dash and one more word.            *)
(***************************************************************************)
LeftWords ==
    { <<"L", "e", "g", "e", "n", "d", "a", "r", "y">>,
      <<"B", "a", "s", "i", "c">>,
      <<"C", "r", "e", "a", "t", "u", "r", "e">>,
      Str_Land,
      Str_Plane }

RightWords ==
    { <<"H", "u", "m", "a", "n">>,
      <<"W", "i", "z", "a", "r", "d">>,
      <<"T", "i", "m", "e">>,
      <<"L", "o", "r", "d">> }

\* the type line of the words: left, and after an em-dash right and rest
TypeLineOf(left, right, rest) ==
    JoinWith(left, <<" ">>)
       \o (IF right.some THEN <<" ", EmDash, " ">> \o JoinWith(right.val, <<" ">>) ELSE <<>>)
       \o (IF rest.some THEN <<" ", EmDash, " ">> \o JoinWith(rest.val, <<" ">>) ELSE <<>>)

WordLists(words, max) == UNION {[1..n -> words] : n \in 0..max}

TypeInputs(max) ==
    {[left |-> l, right |-> r, rest |-> x, text |-> TypeLineOf(l, r, x)] :
        l \in WordLists(LeftWords, max),
        r \in {NoneVal} \cup {Some(w) : w \in WordLists(RightWords, max)},
        x \in {NoneVal, Some(<< <<"W", "i", "z", "a", "r", "d">> >>)}}

TypeInit ==
    /\ StreamStart
    /\ NoFetchRun
    /\ u_pc = "input"
    /\ u_in \in {i \in TypeInputs(MaxTypeTokens) : i.rest.some => i.right.some}
    /\ u_out = <<>>

RunParseCardTypes ==
    /\ u_pc = "input"
    /\ u_out' = parse_card_types(Some(u_in.text))
    /\ u_pc' = "returned"
    /\ UNCHANGED u_in
    /\ UNCHANGED stream_vars
    /\ UNCHANGED fetch_vars

TypeNext == RunParseCardTypes

TypeSpec == TypeInit /\ [][TypeNext]_vars

(***************************************************************************)
(* parse_arena_ids_from_log run on sample log lines                        *)
(*                                                                         *)
(* A line is written from up to 3 plain segments, then a segment that is   *)
(* "Cards: [t1, t2, ...]" or, without the ": " separator, only "Cards",    *)
(* then possibly one more plain segment, all joined by "::".  The tokens   *)
(* are ids, an id with a blank before it, or empty.  None is an input too. *)
(***************************************************************************)
Str_Cards == <<"C", "a", "r", "d", "s">>

PlainSegments == {<<"a">>, <<"b">>}

RawTokens == {<<"1", "2", "3">>, <<"4", "5", "6">>, <<" ", "7">>, <<>>}

CardsSegment(sep, tokens) ==
    IF sep THEN Str_Cards \o <<":", " ", "[">> \o JoinWith(tokens, <<",", " ">>) \o <<"]">>
    ELSE Str_Cards

LogLineOf(pre, sep, tokens, post) ==
    JoinWith(pre \o <<CardsSegment(sep, tokens)>> \o (IF post THEN <<<<"b">>>> ELSE <<>>),
             <<":", ":">>)

LogLineInputs(max_tokens) ==
    {[pre |-> p, sep |-> s, tokens |-> t, post |-> x,
      line |-> Some(LogLineOf(p, s, t, x))] :
        p \in WordLists(PlainSegments, 3),
        s \in BOOLEAN,
        t \in WordLists(RawTokens, max_tokens),
        x \in BOOLEAN}
       \cup {[pre |-> <<>>, sep |-> FALSE, tokens |-> <<>>, post |-> FALSE, line |-> NoneVal]}

ParseInit ==
    /\ StreamStart
    /\ NoFetchRun
    /\ u_pc = "input"
    /\ u_in \in LogLineInputs(MaxTokens)
    /\ u_out = <<>>

RunParseArenaIds ==
    /\ u_pc = "input"
    /\ u_out' = parse_arena_ids_from_log(u_in.line)
    /\ u_pc' = "returned"
    /\ UNCHANGED u_in
    /\ UNCHANGED stream_vars
    /\ UNCHANGED fetch_vars

ParseNext == RunParseArenaIds

ParseSpec == ParseInit /\ [][ParseNext]_vars

(***************************************************************************)
(* get_last_log_line run on sample files                                   *)
(*                                                                         *)
(* The file is absent, or holds any string of up to MaxFileLen bytes of    *)
(* FileBytes; open() succeeds or raises.                                   *)
(***************************************************************************)
FileBytes == {"a", " ", NL, BadByte}

FileInputs(max_len) ==
    {[file |-> [exists |-> e, data |-> d], open_ok |-> o] :
        e \in BOOLEAN, o \in BOOLEAN,
        d \in UNION {[1..n -> FileBytes] : n \in 0..max_len}}

TailInit ==
    /\ StreamStart
    /\ NoFetchRun
    /\ u_pc = "input"
    /\ u_in \in {i \in FileInputs(MaxFileLen) : i.file.exists \/ i.file.data = <<>>}
    /\ u_out = <<>>

RunGetLastLogLine ==
    /\ u_pc = "input"
    /\ u_out' = get_last_log_line(u_in.file, 0, u_in.open_ok)
    /\ u_pc' = "returned"
    /\ UNCHANGED u_in
    /\ UNCHANGED stream_vars
    /\ UNCHANGED fetch_vars

TailNext == RunGetLastLogLine

TailSpec == TailInit /\ [][TailNext]_vars

(***************************************************************************)
(* is_card_playable run on sample costs and the pools a tick can infer     *)
(*                                                                         *)
(* The cost is null or a list of up to MaxSymbols symbols in braces, each  *)
(* a color, a number, X, or a symbol from_string has no case for; the pool *)
(* has 0 or 1 of each color, as line 297 leaves it.                        *)
(***************************************************************************)
PlaySymbols == {<<"W">>, <<"2">>, <<"X">>, <<"S">>, <<"Q", "/", "Z">>}

PlayCosts(max_symbols) ==
    {[symbols |-> Some(l), mana_cost |-> Some(Braced(l))] :
        l \in UNION {[1..n -> PlaySymbols] : n \in 0..max_symbols}}
       \cup {[symbols |-> NoneVal, mana_cost |-> NoneVal]}

InferablePools == [PoolColors -> {0, 1}]

PlayInit ==
    /\ StreamStart
    /\ NoFetchRun
    /\ u_pc = "input"
    /\ u_in \in [cost : PlayCosts(MaxSymbols), pool : InferablePools]
    /\ u_out = <<>>

RunIsCardPlayable ==
    /\ u_pc = "input"
    /\ u_out' = is_card_playable(u_in.cost.mana_cost, u_in.pool)
    /\ u_pc' = "returned"
    /\ UNCHANGED u_in
    /\ UNCHANGED stream_vars
    /\ UNCHANGED fetch_vars

PlayNext == RunIsCardPlayable

PlaySpec == PlayInit /\ [][PlayNext]_vars

(***************************************************************************)
(* calculate_mana_cost_value and ManaCost.from_string run on the same      *)
(* sample cost strings, and on null                                        *)
(***************************************************************************)
ValueInputs(max_symbols, max_len) ==
    {[symbols |-> i.symbols, mana_cost |-> Some(i.text)] :
        i \in CostInputs(max_symbols, max_len)}
       \cup {[symbols |-> NoneVal, mana_cost |-> NoneVal]}

ValueInit ==
    /\ StreamStart
    /\ NoFetchRun
    /\ u_pc = "input"
    /\ u_in \in ValueInputs(MaxSymbols, MaxCostLen)
    /\ u_out = <<>>

RunCostValue ==
    /\ u_pc = "input"
    /\ u_out' = [shown |-> calculate_mana_cost_value(u_in.mana_cost),
                 parsed |-> from_string(u_in.mana_cost)]
    /\ u_pc' = "returned"
    /\ UNCHANGED u_in
    /\ UNCHANGED stream_vars
    /\ UNCHANGED fetch_vars

ValueNext == RunCostValue

ValueSpec == ValueInit /\ [][ValueNext]_vars

(***************************************************************************)
(* Vocabulary of the properties                                            *)
(***************************************************************************)
\* the step is a tick of session s
TickBy(s) == pc[s] = "check" /\ pc'[s] # "check"

\* the step found the line count changed
Detects == last_processed_log_line_count' # last_processed_log_line_count

\* the ids on the trailing line a tick reads in this state
TickLineIds ==
    parse_arena_ids_from_log(get_last_log_line(log_file, log_line_count, TRUE).ret)

EmptyUpdate ==
    [cards |-> <<>>, matching_decks |-> <<>>, opponent_mana |-> ZeroPool, missing_ids |-> {}]

Alive(s) == pc[s] \in {"check", "yield", "sleep"}

\* the catalog names an observed id stands for: by its primary hit, else by
\* the name the legacy table gives it (exact name, then alias)
HasPrimaryHit(db, id) == \E c \in db.scryfall_all_cards : c.arena_id = Some(id)

LegacyNames(db, id) == {l.name : l \in {x \in db.legacy : x.id = id}}

ResolvedNames(db, id) ==
    IF HasPrimaryHit(db, id)
    THEN {c.name : c \in {x \in db.scryfall_all_cards : x.arena_id = Some(id)}}
    ELSE {r.name : r \in UNION {NameLookup(db, n) : n \in LegacyNames(db, id)}}

\* the id is in the legacy table and its name matches no catalog record
LegacyUnresolvable(db, id) ==
    /\ ~HasPrimaryHit(db, id)
    /\ LegacyNames(db, id) # {}
    /\ \A n \in LegacyNames(db, id) : NameLookup(db, n) = {}

\* copies of a card currently observed: the ids of the list that stand for it
ObservedCopies(db, ids, name) ==
    Cardinality({i \in 1..Len(ids) : name \in ResolvedNames(db, ids[i])})

(***************************************************************************)
(* Properties                                                              *)
(***************************************************************************)
\* C1: a tick that detects a line-count change on a trailing line without
\* arena ids does not raise and emits the empty update (no cards, no
\* matching decks, an all-zero opponent_mana, no missing_ids), also when it
\* is the first change of the session.
C1_EmptyLineEmitsEmptyUpdate ==
    [][\A s \in Sessions :
          (TickBy(s) /\ Detects /\ TickLineIds = <<>>)
             => (pc'[s] = "yield" /\ event'[s] = Some(EmptyUpdate))]_vars

\* C2: the missing_ids of every update emitted are among the ids of the
\* trailing line read in the tick that emits it: nothing of an earlier tick
\* is carried over.
C2_MissingIdsFromThisTick ==
    [][\A s \in Sessions :
          (TickBy(s) /\ pc'[s] = "yield")
             => event'[s].val.missing_ids \subseteq ToSet(TickLineIds)]_vars

\* C3: in every tick (the client still connected) exactly one update is
\* emitted when the line count the tick leaves in log_line_count differs from
\* last_processed_log_line_count, and none when they are equal.  A tick the
\* database fails is set aside: the spec leaves its outcome open.
C3_EmitIffCountDiffers ==
    [][\A s \in Sessions :
          (TickBy(s) /\ ~disconnected[s])
             => /\ (log_line_count' # last_processed_log_line_count)
                      => (pc'[s] = "yield" \/ exit'[s] = "OperationalError")
                /\ (log_line_count' = last_processed_log_line_count)
                      => pc'[s] # "yield"]_vars

\* C4: with a single session, no disconnect and a working database, once
\* the log holds n lines the session eventually yields an update made from a
\* read of at least n lines.
C4_AppendEventuallyEmitted ==
    \A n \in 1..MaxLines :
        (log_file.exists /\ CountLines(log_file.data) = n)
           ~> (pc[LiveSession] = "yield" /\ last_processed_log_line_count >= n)

\* C5: once a session has counted the lines of the log since its last
\* change, no tick of any session detects that change again: the tick sees
\* log_line_count equal to last_processed_log_line_count, leaves the
\* counters alone and emits nothing.
C5_ChangeDetectedOnce ==
    [][\A s \in Sessions :
          (TickBy(s) /\ ~disconnected[s] /\ counted # {})
             => /\ pc'[s] = "sleep"
                /\ log_line_count' = last_processed_log_line_count
                /\ UNCHANGED last_processed_log_line_count]_vars

C5_Witness ==
    /\ counted = Sessions
    /\ \E s, t \in Sessions : s # t /\ pc[s] = "yield" /\ pc[t] = "sleep"

\* C6: a session's database connection is open exactly while the session is
\* polling: it is closed once the session has ended, by disconnect or by an
\* exception, and not before.
C6_ConnOpenIffPolling ==
    \A s \in Sessions : conn_open[s] <=> Alive(s)

C6_Witness ==
    \E s, t \in Sessions :
        /\ exit[s] = "disconnect" /\ ~conn_open[s]
        /\ exit[t] \notin {"", "disconnect"} /\ ~conn_open[t]

\* C7: after its client has disconnected a session reads no log, leaves the
\* shared counters and its locals alone and yields no update; the first
\* disconnect check it reaches ends it.
C7_NoWorkAfterDisconnect ==
    [][\A s \in Sessions :
          (disconnected[s] /\ pc'[s] # pc[s])
             => /\ pc'[s] # "yield"
                /\ pc[s] = "check" => (pc'[s] = "done" /\ exit'[s] = "disconnect")
                /\ UNCHANGED <<log_line_count, last_processed_log_line_count,
                               missing_ids, counted>>]_vars

C7_Witness ==
    \E s, t \in Sessions :
        /\ s # t
        /\ disconnected[s] /\ pc[s] = "done" /\ exit[s] = "disconnect"
        /\ pc[t] = "yield"

\* C8: fetch_current_deck_cards returns as missing_ids exactly the distinct
\* requested ids that neither the primary lookup nor the legacy-name
\* fallback resolved.
C8_MissingIdsAreTheUnresolved ==
    f_pc \in {"fetched", "enriched"}
       => f_out.missing_ids = {id \in ToSet(f_ids) : ResolvedNames(SampleDb, id) = {}}

\* C9: for an id without primary hit whose legacy name matches no catalog
\* record, fetch_current_deck_cards returns normally and reports the id in
\* missing_ids.
C9_UnresolvableIsMissingNotError ==
    \A id \in ToSet(f_ids) :
        (f_pc # "input" /\ LegacyUnresolvable(SampleDb, id))
           => (f_pc # "raised" /\ id \in f_out.missing_ids)

\* C10: every card of every candidate deck has current_count equal to the
\* number of observed ids that resolved to a record of that card's name.
C10_CurrentCountIsObservedCopies ==
    f_pc = "enriched"
       => \A i \in 1..Len(f_decks) : \A card \in f_decks[i].cards :
             card.current_count = ObservedCopies(SampleDb, f_ids, card.name)

\* C11: the list find_matching_decks returns is in non-increasing order of
\* matched_cards over its whole length, also when rows of the second query
\* were appended.
C11_SortedByMatchedCards ==
    u_pc = "returned"
       => \A i, j \in 1..Len(u_out) :
             i < j => u_out[i].matched_cards >= u_out[j].matched_cards

\* C12: find_matching_decks returns at most 3 decks, and the empty list
\* when no card is observed.
C12_AtMostThreeDecks ==
    u_pc = "returned"
       => /\ Len(u_out) <= 3
          /\ u_in.current_cards = <<>> => u_out = <<>>

\* color c is one of the comma-separated pieces of produced
ListsColor(produced, c) ==
    \E i \in 1..Len(produced) :
        /\ produced[i] = c
        /\ i = 1 \/ produced[i - 1] = ","
        /\ i = Len(produced) \/ produced[i + 1] = ","

\* the observed cards of types exactly "Land" that list color c
LandsListing(cards, c) ==
    {i \in 1..Len(cards) :
        /\ cards[i].types = Str_Land
        /\ cards[i].produced_mana.some
        /\ ListsColor(cards[i].produced_mana.val, c)}

\* C13: the opponent pool of a rendered update has, for each of W, U, B, R,
\* G, C, the value 1 if some resolved card whose types is exactly "Land"
\* lists the color in its produced_mana, and 0 otherwise, however many such
\* lands were observed.
C13_PoolIsPresencePerColor ==
    f_pc = "rendered"
       => \A c \in PoolColors :
             f_event.val.opponent_mana[c]
                = IF LandsListing(f_event.val.cards, c) # {} THEN 1 ELSE 0

\* two observed lands list W, one of them lists U as well, and a creature
\* that produces G is observed: the pool is W=1, U=1 and nothing else
C13_Witness ==
    /\ f_pc = "rendered"
    /\ Cardinality(LandsListing(f_event.val.cards, "W")) >= 2
    /\ \E i \in 1..Len(f_event.val.cards) :
          /\ f_event.val.cards[i].types # Str_Land
          /\ f_event.val.cards[i].produced_mana = Some(<<"G">>)
    /\ f_event.val.opponent_mana = [c \in PoolColors |-> IF c \in {"W", "U"} THEN 1 ELSE 0]

\* the cost the mana_cost texts of the sample catalog stand for
StatedCost(mana_cost) ==
    CASE mana_cost = Some(<<"{", "R", "}">>) -> [ZeroCost EXCEPT !.R = 1]
      [] mana_cost = Some(<<"{", "G", "}">>) -> [ZeroCost EXCEPT !.G = 1]
      [] mana_cost = Some(<<"{", "W", "}", "{", "U", "}">>) -> [ZeroCost EXCEPT !.W = 1, !.U = 1]
      [] mana_cost = Some(<<"{", "W", "}", "{", "U", "}", "{", "U", "}">>)
            -> [ZeroCost EXCEPT !.W = 1, !.U = 2]
      [] mana_cost = Some(<<"{", "7", "}">>) -> [ZeroCost EXCEPT !.generic = 7]
      [] OTHER -> ZeroCost

\* the pool has each color requirement of the cost and what is left of its
\* total covers the generic part
Covers(pool, cost) ==
    /\ \A c \in PoolColors : pool[c] >= cost[c]
    /\ (pool.W + pool.U + pool.B + pool.R + pool.G + pool.C)
         - (cost.W + cost.U + cost.B + cost.R + cost.G + cost.C) >= cost.generic

\* C14: in every rendered update every card of every candidate deck carries
\* is_playable, TRUE exactly when the inferred opponent pool pays the card's
\* mana cost; with a pool of W=1, U=1 a card costing {W}{U} is playable and
\* a card costing {W}{U}{U} is not.
C14_DeckCardsCarryPlayability ==
    f_pc = "rendered"
       => \A i \in 1..Len(f_event.val.matching_decks) :
             \A card \in f_event.val.matching_decks[i].cards :
                /\ "is_playable" \in DOMAIN card
                /\ card.is_playable
                      <=> Covers(f_event.val.opponent_mana, StatedCost(card.mana_cost))
                /\ card.is_playable
                      = can_pay(f_event.val.opponent_mana, from_string(card.mana_cost).cost)

\* lands producing W and U are observed, the pool is W=1, U=1, and a
\* candidate deck holds a playable {W}{U} card, an unplayable {W}{U}{U}
\* card and an unplayable {R} card
C14_Witness ==
    /\ f_pc = "rendered"
    /\ f_event.val.opponent_mana = [c \in PoolColors |-> IF c \in {"W", "U"} THEN 1 ELSE 0]
    /\ \E i \in 1..Len(f_event.val.matching_decks) :
          \E duo, trio, bolt \in f_event.val.matching_decks[i].cards :
             /\ duo.mana_cost = Some(<<"{", "W", "}", "{", "U", "}">>) /\ duo.is_playable
             /\ trio.mana_cost = Some(<<"{", "W", "}", "{", "U", "}", "{", "U", "}">>)
             /\ ~trio.is_playable
             /\ bolt.mana_cost = Some(<<"{", "R", "}">>) /\ ~bolt.is_playable

\* C15: can_pay returns a boolean, TRUE exactly when the pool has at least
\* the cost's count of each of W, U, B, R, G and of C, and what is left of
\* the pool's total after these six requirements covers cost.generic.
C15_CanPayIffCovered ==
    u_pc = "returned"
       => /\ u_out \in BOOLEAN
          /\ u_out <=>
                /\ \A c \in PoolColors : u_in.pool[c] >= u_in.cost[c]
                /\ (u_in.pool.W + u_in.pool.U + u_in.pool.B + u_in.pool.R + u_in.pool.G
                      + u_in.pool.C)
                    - (u_in.cost.W + u_in.cost.U + u_in.cost.B + u_in.cost.R + u_in.cost.G
                         + u_in.cost.C)
                    >= u_in.cost.generic

\* pool W=2, G=1, C=1 pays W=2, generic=1
C15_Witness ==
    /\ u_pc = "returned"
    /\ u_in.pool = [W |-> 2, U |-> 0, B |-> 0, R |-> 0, G |-> 1, C |-> 1]
    /\ u_in.cost = [W |-> 2, U |-> 0, B |-> 0, R |-> 0, G |-> 0, C |-> 0, generic |-> 1]
    /\ u_out = TRUE

\* the amount a numeric symbol of the sample stands for
NumberValue(sym) ==
    CASE sym = <<"2">> -> 2
      [] sym = <<"1", "0">> -> 10
      [] OTHER -> 0

RECURSIVE SumNumbers(_)
SumNumbers(symbols) ==
    IF symbols = <<>> THEN 0
    ELSE NumberValue(Head(symbols)) + SumNumbers(Tail(symbols))

\* C16: for a cost string made of brace-delimited non-hybrid symbols,
\* from_string returns for each of W, U, B, R, G, C the number of
\* occurrences of that symbol and as generic the sum of the numeric
\* symbols; X and the empty string contribute nothing.
C16_PlainSymbolsCounted ==
    (/\ u_pc = "returned"
     /\ u_in.symbols.some
     /\ \A i \in 1..Len(u_in.symbols.val) : u_in.symbols.val[i] \in PlainSymbols)
       => /\ u_out.raised = ""
          /\ \A c \in PoolColors :
                u_out.cost[c] = Cardinality({i \in 1..Len(u_in.symbols.val) :
                                                u_in.symbols.val[i] = <<c>>})
          /\ u_out.cost.generic = SumNumbers(u_in.symbols.val)

\* "{2}{W}{W}" gives W=2, generic=2, others 0
C16_Witness ==
    /\ u_pc = "returned"
    /\ u_in.text = <<"{", "2", "}", "{", "W", "}", "{", "W", "}">>
    /\ u_out = Parsed("", [ZeroCost EXCEPT !.W = 2, !.generic = 2])

\* C17: for a hybrid symbol A/B, from_string adds 1 to the non-P color when
\* one side is P; else adds the number to generic when either side is
\* numeric; else adds 1 to the first listed color.
C17_HybridSymbol ==
    \A a, b \in HybridSides :
        (/\ u_pc = "returned"
         /\ u_in.symbols = Some(<< <<a, "/", b>> >>)
         /\ (a = "P" => b \in PoolColors)
         /\ (b = "P" => a \in PoolColors))
           => u_out = Parsed("",
                  IF a = "P" THEN [ZeroCost EXCEPT ![b] = 1]
                  ELSE IF b = "P" THEN [ZeroCost EXCEPT ![a] = 1]
                  ELSE IF a = "2" \/ b = "2" THEN [ZeroCost EXCEPT !.generic = 2]
                  ELSE [ZeroCost EXCEPT ![a] = 1])

\* the symbols of the sample that from_string does not know
UnrecognizedSymbols == {<<"S">>, <<"Q", "/", "Z">>}

\* C18: from_string raises for no input string; a string without braces
\* gives the all-zero cost, and a string of unrecognized symbols, hybrid
\* ones included, gives the all-zero cost as well.
C18_NeverRaises ==
    u_pc = "returned"
       => /\ u_out.raised = ""
          /\ ("{" \notin ToSet(u_in.text) \/ "}" \notin ToSet(u_in.text))
                => u_out.cost = ZeroCost
          /\ (/\ u_in.symbols.some
              /\ \A i \in 1..Len(u_in.symbols.val) :
                    u_in.symbols.val[i] \in UnrecognizedSymbols)
                => u_out.cost = ZeroCost

\* the words of a list that are, or are not, super types
RECURSIVE WordsIn(_, _, _)
WordsIn(words, set, keep) ==
    IF words = <<>> THEN <<>>
    ELSE (IF (Head(words) \in set) = keep THEN <<Head(words)>> ELSE <<>>)
         \o WordsIn(Tail(words), set, keep)

SuperTypeWords == {<<"L", "e", "g", "e", "n", "d", "a", "r", "y">>, <<"B", "a", "s", "i", "c">>}

\* the words with every "Time" followed by "Lord" made one word
RECURSIVE TimeLordsJoined(_)
TimeLordsJoined(words) ==
    IF words = <<>> THEN <<>>
    ELSE IF Len(words) >= 2 /\ words[1] = <<"T", "i", "m", "e">> /\ words[2] = <<"L", "o", "r", "d">>
         THEN <<Str_TimeLord>> \o TimeLordsJoined(SubSeq(words, 3, Len(words)))
         ELSE <<Head(words)>> \o TimeLordsJoined(Tail(words))

\* C19: parse_card_types returns the words left of the em-dash that are
\* super types, in order, the other words left of it joined by spaces, and
\* the words right of it as sub types; the empty line gives ([], "", []).
C19_PartitionAndSubtypes ==
    u_pc = "returned"
       => /\ u_out.super_types = WordsIn(u_in.left, SuperTypeWords, TRUE)
          /\ u_out.types = JoinWith(WordsIn(u_in.left, SuperTypeWords, FALSE), <<" ">>)
          /\ u_out.sub_types = IF u_in.right.some THEN u_in.right.val ELSE <<>>

\* C19 as amended: the same for super types and types; the sub types are
\* the words between the first em-dash and the next one, except that a
\* line starting with "Plane" has that whole text, trimmed, as its single
\* sub type, and that "Time Lord" stays one sub type.
C19_SubtypesWithExceptions ==
    u_pc = "returned"
       => /\ u_out.super_types = WordsIn(u_in.left, SuperTypeWords, TRUE)
          /\ u_out.types = JoinWith(WordsIn(u_in.left, SuperTypeWords, FALSE), <<" ">>)
          /\ u_out.sub_types =
                IF ~u_in.right.some THEN <<>>
                ELSE IF u_in.left # <<>> /\ u_in.left[1] = Str_Plane
                     THEN <<JoinWith(u_in.right.val, <<" ">>)>>
                     ELSE TimeLordsJoined(u_in.right.val)

\* "Legendary Creature - Human Wizard" gives (["Legendary"], "Creature",
\* ["Human", "Wizard"])
C19_Witness ==
    /\ u_pc = "returned"
    /\ u_in.left = <<<<"L", "e", "g", "e", "n", "d", "a", "r", "y">>, <<"C", "r", "e", "a", "t", "u", "r", "e">>>>
    /\ u_in.right = Some(<<<<"H", "u", "m", "a", "n">>, <<"W", "i", "z", "a", "r", "d">>>>)
    /\ ~u_in.rest.some
    /\ u_out = [super_types |-> <<<<"L", "e", "g", "e", "n", "d", "a", "r", "y">>>>, types |-> <<"C", "r", "e", "a", "t", "u", "r", "e">>, sub_types |-> <<<<"H", "u", "m", "a", "n">>, <<"W", "i", "z", "a", "r", "d">>>>]

\* the tokens of a sample line, trimmed, without the empty ones
RECURSIVE TrimmedIds(_)
TrimmedIds(tokens) ==
    IF tokens = <<>> THEN <<>>
    ELSE (CASE Head(tokens) = <<>> -> <<>>
            [] Head(tokens) = <<" ", "7">> -> <<<<"7">>>>
            [] OTHER -> <<Head(tokens)>>)
         \o TrimmedIds(Tail(tokens))

\* C20: parse_arena_ids_from_log returns a list for every input, None
\* included: the empty list when the line has fewer than 3 "::" segments or
\* its third segment has no ": ", and otherwise the trimmed, non-empty
\* tokens of the bracketed list, in order and with their duplicates.
C20_IdsOfTheBracketedList ==
    u_pc = "returned"
       => u_out = IF u_in.line.some /\ Len(u_in.pre) = 2 /\ u_in.sep
                  THEN TrimmedIds(u_in.tokens)
                  ELSE <<>>

\* "a::b::Cards: [123, 456]" gives ["123", "456"]
C20_Witness ==
    /\ u_pc = "returned"
    /\ u_in.line = Some(<<"a", ":", ":", "b", ":", ":", "C", "a", "r", "d", "s", ":", " ", "[", "1", "2", "3", ",", " ",
                          "4", "5", "6", "]">>)
    /\ u_out = <<<<"1", "2", "3">>, <<"4", "5", "6">>>>

\* the data without the newline that ends it, if one does
WithoutFinalNewline(data) ==
    IF data # <<>> /\ data[Len(data)] = NL THEN SubSeq(data, 1, Len(data) - 1) ELSE data

\* the final line of the file: what follows the last newline that is not
\* the file's last byte
FinalLine(data) ==
    LET body == WithoutFinalNewline(data)
        breaks == {i \in 1..Len(body) : body[i] = NL}
        start == IF breaks = {} THEN 1
                 ELSE 1 + CHOOSE i \in breaks : \A j \in breaks : j <= i
    IN SubSeq(body, start, Len(body))

\* the file can be read and its final line decoded
Readable(input) ==
    /\ input.file.exists
    /\ input.open_ok
    /\ BadByte \notin ToSet(FinalLine(input.file.data))

\* C21: get_last_log_line returns the file's final line, stripped, for
\* every readable non-empty file, whatever its length and whether or not it
\* ends with a newline, and returns null only when the file is absent,
\* empty or unreadable.
C21_FinalLineOfEveryNonEmptyFile ==
    u_pc = "returned"
       => IF Readable(u_in) /\ u_in.file.data # <<>>
          THEN u_out.ret = Some(Strip(FinalLine(u_in.file.data)))
          ELSE u_out.ret = NoneVal

\* the names observed in the run of find_matching_decks
ObservedNames == {u_in.current_cards[i].name : i \in 1..Len(u_in.current_cards)}

\* the ids of the decks holding, by card_id, a catalog card of an observed name
IdTierDecks ==
    {d.id : d \in {x \in u_in.db.decks :
                     \E dc \in u_in.db.deck_cards, c \in u_in.db.scryfall_all_cards :
                        /\ dc.deck_id = x.id
                        /\ dc.card_id = Some(c.id)
                        /\ c.name \in ObservedNames}}

\* the ids of the standard decks of the two accepted sources holding, by
\* name, a catalog card of an observed name
NameTierDecks ==
    {d.id : d \in {x \in u_in.db.decks :
                     /\ x.format = "standard"
                     /\ x.source \in {"17lands.com", "mtgazone.com"}
                     /\ \E dc \in u_in.db.deck_cards, c \in u_in.db.scryfall_all_cards :
                           /\ dc.deck_id = x.id
                           /\ dc.name = c.name
                           /\ c.name \in ObservedNames}}

AtMost3(n) == IF n < 3 THEN n ELSE 3

\* rows from..to of the result are distinct decks of the set, best first
TierSegment(from, to, decks) ==
    /\ \A i \in from..to : u_out[i].id \in decks
    /\ \A i, j \in from..to :
          i < j => (u_out[i].id # u_out[j].id
                      /\ u_out[i].matched_cards >= u_out[j].matched_cards)

\* C23: find_matching_decks runs the name-join query exactly when the
\* id-join query returned fewer than 3 decks; the result is the id-join
\* rows followed by the name-join rows (at most 3 of each), nothing
\* removed, so a deck both queries return is in it twice; 3 id-join rows
\* are the whole result.
C23_TwoTiersAppended ==
    (u_pc = "returned" /\ u_in.current_cards # <<>>)
       => LET n1 == AtMost3(Cardinality(IdTierDecks))
              n2 == IF n1 < 3 THEN AtMost3(Cardinality(NameTierDecks)) ELSE 0
          IN /\ Len(u_out) = n1 + n2
             /\ TierSegment(1, n1, IdTierDecks)
             /\ TierSegment(n1 + 1, n1 + n2, NameTierDecks)

\* two decks are returned by both queries: four rows, each deck twice
C23_Witness ==
    /\ u_pc = "returned"
    /\ Len(u_out) = 4
    /\ \A i \in 1..2 : \E j \in 3..4 : u_out[i].id = u_out[j].id
    /\ u_out[1].id # u_out[2].id

\* there is a payment of the cost from the pool: each requirement of a
\* color or of colorless takes units of its own kind, g units of each kind
\* go to the generic part, and no kind gives more units than the pool has
PaymentExists(pool, cost) ==
    \E gW \in 0..(pool.W - cost.W), gU \in 0..(pool.U - cost.U),
       gB \in 0..(pool.B - cost.B), gR \in 0..(pool.R - cost.R),
       gG \in 0..(pool.G - cost.G), gC \in 0..(pool.C - cost.C) :
          gW + gU + gB + gR + gG + gC = cost.generic

\* C27: can_pay is exact: it is TRUE exactly when some payment of the cost
\* from the pool exists, and a cost it finds payable stays payable when one
\* more unit of any kind is added to the pool.
C27_CanPayIsExact ==
    u_pc = "returned"
       => /\ u_out <=> PaymentExists(u_in.pool, u_in.cost)
          /\ u_out => \A c \in PoolColors :
                         can_pay([u_in.pool EXCEPT ![c] = @ + 1], u_in.cost)

\* the generic part is paid from two different kinds, next to a colorless
\* requirement
C27_Witness ==
    /\ u_pc = "returned"
    /\ u_in.pool = [W |-> 1, U |-> 0, B |-> 0, R |-> 0, G |-> 1, C |-> 1]
    /\ u_in.cost = [W |-> 0, U |-> 0, B |-> 0, R |-> 0, G |-> 0, C |-> 1, generic |-> 2]
    /\ u_out = TRUE

\* C28: in every rendered update each color of opponent_mana is 0 or 1 and
\* the pool's total is at most 6, so a deck card whose cost asks for two or
\* more of one color, or for more than 6 mana in all, is not marked
\* playable, however many lands of the color were observed.
C28_PoolCapsPlayability ==
    f_pc = "rendered"
       => /\ \A c \in PoolColors : f_event.val.opponent_mana[c] \in {0, 1}
          /\ Total(f_event.val.opponent_mana) <= 6
          /\ \A i \in 1..Len(f_event.val.matching_decks) :
                \A card \in f_event.val.matching_decks[i].cards :
                   LET cost == StatedCost(card.mana_cost)
                   IN ((\E c \in PoolColors : cost[c] >= 2)
                         \/ cost.W + cost.U + cost.B + cost.R + cost.G + cost.C
                              + cost.generic > 6)
                        => ~card.is_playable

\* two lands that produce U and two that produce W are observed (one land
\* produces both); the {W}{U}{U} card and the {7} card of a candidate deck
\* are not playable
C28_Witness ==
    /\ f_pc = "rendered"
    /\ Cardinality(LandsListing(f_event.val.cards, "U")) >= 2
    /\ Cardinality(LandsListing(f_event.val.cards, "W")) >= 2
    /\ \E i \in 1..Len(f_event.val.matching_decks) :
          \E trio, titan \in f_event.val.matching_decks[i].cards :
             /\ trio.mana_cost = Some(<<"{", "W", "}", "{", "U", "}", "{", "U", "}">>)
             /\ ~trio.is_playable
             /\ titan.mana_cost = Some(<<"{", "7", "}">>)
             /\ ~titan.is_playable

\* C22: no step of another session comes between a tick's read of the log
\* and the end of the tick's work: the step that sets log_line_count is the
\* step that compares it with last_processed_log_line_count and updates
\* it, it is a tick of one session, and it leaves every other session and
\* the log as they were.
C22_TickIsAtomic ==
    [][/\ \A s \in Sessions :
            TickBy(s)
               => /\ \A t \in Sessions \ {s} :
                        /\ pc'[t] = pc[t]
                        /\ missing_ids'[t] = missing_ids[t]
                        /\ event'[t] = event[t]
                        /\ exit'[t] = exit[t]
                        /\ conn_open'[t] = conn_open[t]
                  /\ log_file' = log_file
                  /\ ~disconnected[s]
                        => last_processed_log_line_count' = log_line_count'
       /\ (log_line_count' # log_line_count
             \/ last_processed_log_line_count' # last_processed_log_line_count)
            => \E s \in Sessions : TickBy(s)]_vars

\* one session has processed the lines of the log and waits at its yield,
\* the other is at its disconnect check and has not read the log since
C22_Witness ==
    \E s, t \in Sessions :
        /\ s # t
        /\ pc[s] = "yield" /\ pc[t] = "check" /\ t \notin counted
        /\ log_file.exists
        /\ CountLines(log_file.data) > 0
        /\ last_processed_log_line_count = CountLines(log_file.data)

\* C24: wherever the sessions are suspended or have ended,
\* last_processed_log_line_count equals log_line_count, whatever was
\* appended to the log, truncated, deleted or failed to be read.
C24_CountersAgreeAtSuspension ==
    (\A s \in Sessions : pc[s] \in {"init", "check", "yield", "sleep", "done"})
       => last_processed_log_line_count = log_line_count

\* the counters agree on a stale count: lines were processed, a session
\* has ended with an exception and the log has been deleted since
C24_Witness ==
    /\ last_processed_log_line_count = log_line_count
    /\ log_line_count > 1
    /\ ~log_file.exists
    /\ \E s \in Sessions : exit[s] \notin {"", "disconnect"}

\* C25: a tick in which a lookup or the render raises has already set
\* last_processed_log_line_count to the new line count: the session ends
\* without an update, and an update is emitted later only by a tick that
\* finds the log's line count different from the processed one.
C25_FailedChangeIsNotRetried ==
    [][\A s \in Sessions :
          TickBy(s)
             => /\ exit'[s] \notin {"", "disconnect"}
                   => /\ pc'[s] = "done"
                      /\ event' = event
                      /\ last_processed_log_line_count' = log_line_count'
                      /\ log_file.exists => log_line_count' = CountLines(log_file.data)
                /\ pc'[s] = "yield"
                   => /\ log_file.exists
                      /\ CountLines(log_file.data) # last_processed_log_line_count]_vars

\* a session has ended with an exception; the other one has read the same
\* log since and sleeps without ever having emitted
C25_Witness ==
    \E s, t \in Sessions :
        /\ s # t
        /\ exit[s] \notin {"", "disconnect"}
        /\ pc[t] = "sleep" /\ t \in counted /\ ~missing_ids[t].bound
        /\ log_file.exists
        /\ CountLines(log_file.data) > 0
        /\ last_processed_log_line_count = CountLines(log_file.data)

\* C26: the counters are left alone when a session starts and when it ends
\* at its disconnect check, and a tick that finds the log's line count
\* equal to last_processed_log_line_count emits nothing, in a session that
\* has just connected as in any other.
C26_NoResetNoInitialUpdate ==
    [][\A s \in Sessions :
          /\ ((pc[s] = "init" /\ pc'[s] = "check")
                \/ (pc[s] # "done" /\ pc'[s] = "done" /\ exit'[s] = "disconnect"))
                => UNCHANGED <<log_line_count, last_processed_log_line_count>>
          /\ (/\ TickBy(s)
              /\ ~disconnected[s]
              /\ log_line_count = last_processed_log_line_count
              /\ log_file.exists => CountLines(log_file.data) = last_processed_log_line_count)
                => (pc'[s] = "sleep" /\ event'[s] = NoneVal)]_vars

\* a session has processed the log and left; the other one polls the same
\* log and sleeps without ever having emitted
C26_Witness ==
    \E s, t \in Sessions :
        /\ s # t
        /\ exit[s] = "disconnect" /\ missing_ids[s].bound
        /\ pc[t] = "sleep" /\ t \in counted /\ ~missing_ids[t].bound /\ event[t] = NoneVal
        /\ log_file.exists
        /\ CountLines(log_file.data) > 0
        /\ last_processed_log_line_count = CountLines(log_file.data)

\* the symbols of the sample that are a color or a number
RecognizedSymbols == {<<"W">>, <<"2">>}

\* the cost is null, empty or holds no recognized symbol
NothingToPay(cost) ==
    cost.symbols.some
       => \A k \in 1..Len(cost.symbols.val) : cost.symbols.val[k] \notin RecognizedSymbols

\* C29: a card whose mana cost is null, empty or holds no recognized symbol
\* is playable against every pool, the all-zero pool included.
C29_NothingToPayIsPlayable ==
    (u_pc = "returned" /\ NothingToPay(u_in.cost))
       => (u_out.raised = "" /\ u_out.playable)

\* the cost string is a list of symbols in braces, each a color, colorless,
\* X or a number
WellFormedCost(input) ==
    /\ input.symbols.some
    /\ \A k \in 1..Len(input.symbols.val) :
          input.symbols.val[k] \in {<<c>> : c \in PoolColors} \cup {<<"X">>, <<"2">>, <<"1", "0">>}

====
